---------------------------- MODULE Spec2Model ----------------------------
(***************************************************************************)
(* A model of the magnitude engine of orrery: model selection              *)
(* (IlluminatedBody.make), geometry derivation (ReflectionParameters.make),*)
(* the illumination models of base/magnitude.py, and the object and        *)
(* observation records of base/object.py and base/data.py.                 *)
(*                                                                         *)
(* Python floats are modelled as decimal floating-point numbers with an    *)
(* eight-digit mantissa: [m |-> mantissa, e |-> exponent] stands for       *)
(* m * 10^e, and is kept normalised (m = 0 and e = 0, or                   *)
(* 10^7 <= |m| < 10^8), so that equal numbers are equal records; results   *)
(* are rounded to the nearest mantissa, digit by digit.  Every             *)
(* decimal literal of the source is exact in this representation.  The     *)
(* functions of Python's math module raise ValueError outside their        *)
(* domain; an operation that raises is modelled by the value Raised.       *)
(***************************************************************************)
EXTENDS Integers, Sequences, FiniteSets, TLC

-----------------------------------------------------------------------------
(* Decimal floating point.                                                 *)

Abs(n) == IF n < 0 THEN -n ELSE n
Sgn(n) == IF n < 0 THEN -1 ELSE IF n = 0 THEN 0 ELSE 1

RECURSIVE Pow10(_)
Pow10(k) == IF k <= 0 THEN 1 ELSE 10 * Pow10(k - 1)

\* The mantissa of a normalised number lies in MantLo .. MantHi - 1.
MantLo == Pow10(7)
MantHi == Pow10(8)

RECURSIVE Norm(_, _)
Norm(m, e) ==
    IF m = 0 THEN [m |-> 0, e |-> 0]
    ELSE IF MantLo <= Abs(m) /\ Abs(m) < MantHi THEN [m |-> m, e |-> e]
    ELSE LET long == Abs(m) >= MantHi
         IN  Norm(IF long THEN Sgn(m) * ((Abs(m) + 5) \div 10) ELSE m * 10,
                  IF long THEN e + 1 ELSE e - 1)

\* The float written mant * 10^exp in the source, e.g. 6.3280e-02 = Lit(6328, -5).
Lit(mant, exp) == Norm(mant, exp)
IntF(n) == Norm(n, 0)
Zero == Norm(0, 0)
One == Norm(1, 0)

IsZero(a) == a.m = 0
Neg(a) == [m |-> -a.m, e |-> a.e]

\* a + b: the smaller operand is shifted to the exponent of the larger one (one
\* guard digit), digits below that are dropped.
AddOrdered(a, b) ==
    LET d == a.e - b.e
    IN  IF d >= 9 THEN a
        ELSE Norm(a.m * 10 + Sgn(b.m) * ((Abs(b.m) * 10) \div Pow10(d)), a.e - 1)

Add(a, b) ==
    IF IsZero(a) THEN b
    ELSE IF IsZero(b) THEN a
    ELSE IF a.e >= b.e THEN AddOrdered(a, b) ELSE AddOrdered(b, a)

Sub(a, b) == Add(a, Neg(b))

\* a * b: the leading digits of the sixteen-digit product of the mantissas,
\* computed in halves of four digits so that no intermediate exceeds 32 bits.
Mul(a, b) ==
    IF IsZero(a) \/ IsZero(b) THEN Zero
    ELSE
    LET ah == Abs(a.m) \div 10000
        al == Abs(a.m) % 10000
        bh == Abs(b.m) \div 10000
        bl == Abs(b.m) % 10000
        hi == ah * bh
        mid == ah * bl + al * bh + ((al * bl) \div 10000)
        s == Sgn(a.m) * Sgn(b.m)
    IN  Norm(s * (hi * 10 + (mid \div 1000)), a.e + b.e + 7)

\* The digits of num / den by long division: DivDigits(q, r, den, n) appends n
\* more digits to the quotient q, r being the running remainder.
RECURSIVE DivDigits(_, _, _, _)
DivDigits(q, r, den, n) ==
    IF n = 0 THEN q
    ELSE DivDigits(q * 10 + ((r * 10) \div den), (r * 10) % den, den, n - 1)

\* a / b for b # 0.
Div(a, b) ==
    IF IsZero(a) THEN Zero
    ELSE
    LET num == Abs(a.m)
        den == Abs(b.m)
        q == DivDigits(num \div den, num % den, den, 8)
    IN  Norm(Sgn(a.m) * Sgn(b.m) * q, a.e - b.e - 8)

Lt(a, b) == Sub(a, b).m < 0
Le(a, b) == Sub(a, b).m <= 0
Ge(a, b) == ~Lt(a, b)
Gt(a, b) == ~Le(a, b)

-----------------------------------------------------------------------------
(* The functions of Python's math module and of numpy that the source      *)
(* calls, computed in the decimal arithmetic above.                        *)

Half == Lit(5, -1)
Two == IntF(2)
Ten == IntF(10)
\* ln 10, pi / 2 (rounded down, as the double nearest to pi / 2 is), and the
\* constants DEG2RAD and RAD2DEG of skyfield.constants.
LN10 == Lit(23025851, -7)
HALF_PI == Lit(15707963, -7)
DEG2RAD == Lit(17453292, -9)
RAD2DEG == Lit(57295780, -6)

\* floor(a) as an integer, for |a| < 10^9.
Floor(a) ==
    IF a.e >= 0 THEN a.m * Pow10(a.e)
    ELSE IF a.e < -9 THEN (IF a.m < 0 THEN -1 ELSE 0)
    ELSE a.m \div Pow10(-a.e)

\* Integer square root by Newton's iteration from above.
RECURSIVE ISqrtFrom(_, _)
ISqrtFrom(n, s) ==
    LET t == (s + (n \div s)) \div 2
    IN  IF t >= s THEN s ELSE ISqrtFrom(n, t)

ISqrt(n) == IF n = 0 THEN 0 ELSE ISqrtFrom(n, 46340)

\* sqrt(a) for a >= 0 (numpy.sqrt, inside skyfield's length_of): an integer
\* estimate of four to five digits, then two Newton steps.
NewtonSqrt(a, x) == Mul(Half, Add(x, Div(a, x)))

Sqrt(a) ==
    IF IsZero(a) THEN Zero
    ELSE
    LET odd == a.e % 2 = 1
        mm == IF odd THEN a.m * 10 ELSE a.m
        ee == IF odd THEN a.e - 1 ELSE a.e
        x0 == Norm(ISqrt(mm), ee \div 2)
    IN  NewtonSqrt(a, NewtonSqrt(a, x0))

Square(a) == Mul(a, a)

\* The binary digits of log10(y) for 1 <= y < 10: square y; a square y2 of 10
\* or more (exponent -6) gives the digit 1 and is divided by 10.  LogBits
\* returns the first n digits as an integer, from the square of y on.
LogBit(y2) == IF y2.e >= -6 THEN 1 ELSE 0
LogRest(y2) == [m |-> y2.m, e |-> y2.e - LogBit(y2)]

RECURSIVE LogBits(_, _, _)
LogBits(y2, n, acc) ==
    IF n = 0 THEN acc
    ELSE LogBits(Square(LogRest(y2)), n - 1, 2 * acc + LogBit(y2))

\* log10(a) for a > 0: the exponent plus the logarithm of the mantissa.
Log10Pos(a) ==
    Add(IntF(a.e + 7),
        Div(IntF(LogBits(Square([m |-> a.m, e |-> -7]), 20, 0)), IntF(1048576)))

\* sum of u^k / k! for k = i .. n, given term = u^i / i!.
RECURSIVE ExpSeries(_, _, _, _)
ExpSeries(u, term, i, n) ==
    IF i > n THEN Zero
    ELSE Add(term, ExpSeries(u, Div(Mul(term, u), IntF(i + 1)), i + 1, n))

\* e^x for -746 < x < 710: 10^k * e^u with x = (k + f) ln 10 and u = f ln 10,
\* e^u = (e^(u/8))^8.  ExpEighth(u8) is e^(u8), ExpShifted(v, k) is v * 10^k,
\* and ExpSplit(t, k) is 10^t for k = floor(t).
ExpEighth(u8) == Add(One, ExpSeries(u8, u8, 1, 9))
ExpShifted(v, k) == Norm(v.m, v.e + k)
ExpSplit(t, k) ==
    ExpShifted(Square(Square(Square(ExpEighth(Div(Mul(Sub(t, IntF(k)), LN10), IntF(8)))))), k)
ExpFinite(x) == ExpSplit(Div(x, LN10), Floor(Div(x, LN10)))

\* sum of (-1)^j u^(i+2j) / (i+2j)! for the terms up to degree n, given
\* term = u^i / i! : from i = 1 the sine, from i = 0 the cosine.
RECURSIVE TrigSeries(_, _, _, _)
TrigSeries(u2, term, i, n) ==
    IF i > n THEN Zero
    ELSE Add(term, TrigSeries(u2, Neg(Div(Mul(term, u2), IntF((i + 1) * (i + 2)))), i + 2, n))

Sin(u) == TrigSeries(Mul(u, u), u, 1, 13)
Cos(u) == TrigSeries(Mul(u, u), One, 0, 14)

\* u - u^3/3 + u^5/5 - ... for small u, given pw = u^i with its sign.
RECURSIVE AtanSeries(_, _, _, _)
AtanSeries(u2, pw, i, n) ==
    IF i > n THEN Zero
    ELSE Add(Div(pw, IntF(i)), AtanSeries(u2, Neg(Mul(pw, u2)), i + 2, n))

\* atan z = 2 atan (z / (1 + sqrt(1 + z^2))).
AtanHalve(z) == Div(z, Add(One, Sqrt(Add(One, Mul(z, z)))))

\* atan(u) for 0 <= u < 0.2, and atan(z) for 0 <= z <= 1.
AtanSmall(u) == AtanSeries(Mul(u, u), u, 1, 11)
AtanUnit(z) == Mul(IntF(4), AtanSmall(AtanHalve(AtanHalve(z))))

\* numpy.arctan2(y, x) for y >= 0 and x >= 0; arctan2(0, 0) is 0.
Arctan2(y, x) ==
    IF IsZero(y) THEN Zero
    ELSE IF IsZero(x) THEN HALF_PI
    ELSE IF Le(y, x) THEN AtanUnit(Div(y, x))
    ELSE Sub(HALF_PI, AtanUnit(Div(x, y)))

-----------------------------------------------------------------------------
(* Python values: None, a raised exception, and float operations whose     *)
(* operands may have raised (the exception propagates, left operand first).*)

None == [cls |-> "NoneType"]
ValueError == [raised |-> "ValueError"]
OverflowError == [raised |-> "OverflowError"]

IsRaised(x) == "raised" \in DOMAIN x

Plus(a, b) == IF IsRaised(a) THEN a ELSE IF IsRaised(b) THEN b ELSE Add(a, b)
Minus(a, b) == IF IsRaised(a) THEN a ELSE IF IsRaised(b) THEN b ELSE Sub(a, b)
Times(a, b) == IF IsRaised(a) THEN a ELSE IF IsRaised(b) THEN b ELSE Mul(a, b)

\* math.log10 and math.log: ValueError ("math domain error") for x <= 0.
math_log10(x) ==
    IF IsRaised(x) THEN x ELSE IF x.m <= 0 THEN ValueError ELSE Log10Pos(x)

math_log(x) ==
    IF IsRaised(x) THEN x ELSE IF x.m <= 0 THEN ValueError ELSE Mul(Log10Pos(x), LN10)

\* math.exp: a double underflows to 0.0 below about -745.13 and overflows
\* (OverflowError, "math range error") above about 709.78.
math_exp(x) ==
    IF IsRaised(x) THEN x
    ELSE IF Lt(x, Lit(-74513, -2)) THEN Zero
    ELSE IF Gt(x, Lit(70978, -2)) THEN OverflowError
    ELSE ExpFinite(x)

\* math.pow(x, y) for a y that is not an integer: 0.0 at x = 0 (y > 0),
\* ValueError for x < 0, exp(y ln x) otherwise.
math_pow(x, y) ==
    IF IsRaised(x) THEN x
    ELSE IF IsZero(x) THEN (IF y.m > 0 THEN Zero ELSE ValueError)
    ELSE IF x.m < 0 THEN ValueError
    ELSE math_exp(Mul(y, math_log(x)))

\* math.tan of the double nearest to pi / 2, which lies just below pi / 2.
TAN_HALF_PI == Lit(16331239, 9)

\* math.tan(x) for 0 <= x <= pi / 2: sin / cos up to pi / 4, and
\* 1 / tan(pi / 2 - x) above it.
Cot(c) == Div(Cos(c), Sin(c))
math_tan(x) ==
    IF Le(x, Mul(Half, HALF_PI)) THEN Div(Sin(x), Cos(x))
    ELSE IF Ge(x, HALF_PI) THEN TAN_HALF_PI
    ELSE Cot(Sub(HALF_PI, x))

-----------------------------------------------------------------------------
(* Vectors: the .au arrays of skyfield positions, three floats each.       *)

VFloat(v) == <<IntF(v[1]), IntF(v[2]), IntF(v[3])>>
VAdd(u, v) == <<Add(u[1], v[1]), Add(u[2], v[2]), Add(u[3], v[3])>>
VSub(u, v) == <<Sub(u[1], v[1]), Sub(u[2], v[2]), Sub(u[3], v[3])>>
VNeg(u) == <<Neg(u[1]), Neg(u[2]), Neg(u[3])>>
VScale(u, k) == <<Mul(u[1], k), Mul(u[2], k), Mul(u[3], k)>>

\* skyfield.functions.length_of: sqrt((xyz * xyz).sum()).
length_of(v) == Sqrt(Add(Add(Mul(v[1], v[1]), Mul(v[2], v[2])), Mul(v[3], v[3])))

\* skyfield.functions.angle_between, in radians: with a = u |v| and b = v |u|,
\* 2 arctan2(|a - b|, |a + b|).  It is 0 when u or v is the zero vector.
angle_of(a, b) == Mul(Two, Arctan2(length_of(VSub(a, b)), length_of(VAdd(a, b))))
angle_between(u, v) == angle_of(VScale(u, length_of(v)), VScale(v, length_of(u)))

-----------------------------------------------------------------------------
(* The vectors of positions.                                               *)

\* Coordinates of positions are whole AU, within MaxCoord of the origin.
MaxCoord == 2

Coords == -MaxCoord .. MaxCoord
\* Positions of a target relative to the observer, and barycentric positions
\* of the observer: at the barycenter, on the x axis, and off it.
TargetVectors == {<<x, y, 0>> : x \in Coords, y \in Coords}
ObserverVectors == {<<x, 0, 0>> : x \in 0 .. MaxCoord} \cup {<<MaxCoord, 1, 0>>}

-----------------------------------------------------------------------------
(* base/magnitude.py                                                       *)

\* Log10 of the number of AU in a parsec: math.log10(math.pi / 648000).
LOG_AU_TO_PC == math_log10(Div(Mul(Two, HALF_PI), IntF(648000)))

\* A skyfield Time is modelled by its UTC instant, counted in years from
\* 1999-01-01T00:00 UTC; utc_datetime().year is its calendar year.
Time(utc) == [cls |-> "Time", utc |-> utc]
utc_year(t) == 1999 + t.utc

\* An Astrometric position: the observer's barycentric position and the
\* target's position relative to the observer (3-vectors, AU), and the time
\* of the observation or None.
Astrometric(center_barycentric, position, t) ==
    [center_barycentric |-> center_barycentric, position |-> position, t |-> t]

\* position.distance().au
distance_au(position) == length_of(VFloat(position.position))

\* The instances of the illumination models.
DistantLuminousBody(apparentMagnitude) ==
    [cls |-> "DistantLuminousBody", m_ |-> apparentMagnitude]
ProximateLuminousBody(absoluteMagnitude) ==
    [cls |-> "ProximateLuminousBody", m_ |-> absoluteMagnitude]
Mercury == [cls |-> "Mercury"]
Venus == [cls |-> "Venus"]
Earth == [cls |-> "Earth"]
Mars == [cls |-> "Mars"]
Jupiter == [cls |-> "Jupiter"]
Saturn == [cls |-> "Saturn"]
Uranus == [cls |-> "Uranus"]
Neptune == [cls |-> "Neptune"]
HGReflectingBody(h, g) == [cls |-> "HGReflectingBody", h |-> h, g |-> g]
SolarActivatedBody(g, k) == [cls |-> "SolarActivatedBody", g |-> g, k |-> k]

\* isinstance(body, ReflectingBody)
ReflectingClasses ==
    {"Mercury", "Venus", "Earth", "Mars", "Jupiter", "Saturn", "Uranus", "Neptune",
     "HGReflectingBody"}
IsReflectingBody(body) == body.cls \in ReflectingClasses

\* A derivation that takes the vector from the Sun to the observer to be the
\* negation of the barycentric position of the observer.
Geometry_negated(center_barycentric, position) ==
    LET sunToObserver == VNeg(VFloat(center_barycentric))
        observerToPlanet == VFloat(position)
        sunToPlanet == VAdd(sunToObserver, observerToPlanet)
    IN  [r |-> length_of(sunToPlanet),
         delta |-> length_of(observerToPlanet),
         alpha |-> Mul(angle_between(VNeg(sunToPlanet), VNeg(observerToPlanet)), RAD2DEG)]

\* A derivation that takes r to be the distance of the observer from the Sun.
Geometry_observerDistance(center_barycentric, position) ==
    LET sunToObserver == VFloat(center_barycentric)
        observerToPlanet == VFloat(position)
        sunToPlanet == VAdd(sunToObserver, observerToPlanet)
    IN  [r |-> length_of(sunToObserver),
         delta |-> length_of(observerToPlanet),
         alpha |-> Mul(angle_between(VNeg(sunToPlanet), VNeg(observerToPlanet)), RAD2DEG)]

\* The body of ReflectionParameters.make, on the .au arrays of
\* position.center_barycentric.position and of position.position.
Geometry(center_barycentric, position) ==
    LET sunToObserver == VFloat(center_barycentric)
        observerToPlanet == VFloat(position)
        sunToPlanet == VAdd(sunToObserver, observerToPlanet)
    IN  [r |-> length_of(sunToPlanet),
         delta |-> length_of(observerToPlanet),
         alpha |-> Mul(angle_between(VNeg(sunToPlanet), VNeg(observerToPlanet)), RAD2DEG)]

\* The geometry of every pair of vectors of the positions, evaluated once.
GeometryOf ==
    [g \in ObserverVectors \X TargetVectors |-> Geometry(g[1], g[2])] @@ <<>>

ReflectionParameters(position, derived) ==
    [position |-> position, r |-> derived.r, delta |-> derived.delta, alpha |-> derived.alpha]

ReflectionParameters_make(position) ==
    ReflectionParameters(position, GeometryOf[<<position.center_barycentric, position.position>>])

distanceFactor(params) == Times(IntF(5), math_log10(Mul(params.r, params.delta)))

\* _polynomial(x, coefficients): the loop from coefficient i on, with the
\* accumulator acc and the running power xx.
RECURSIVE PolynomialLoop(_, _, _, _, _)
PolynomialLoop(x, coefficients, i, acc, xx) ==
    IF i > Len(coefficients) THEN acc
    ELSE PolynomialLoop(x, coefficients, i + 1, Add(acc, Mul(coefficients[i], xx)), Mul(xx, x))

polynomial(x, coefficients) == PolynomialLoop(x, coefficients, 1, Zero, One)

Mercury_q(params) ==
    polynomial(params.alpha,
        <<Lit(-613, -3), Lit(63280, -6), Lit(-16336, -7), Lit(33644, -9),
          Lit(-34265, -11), Lit(16893, -13), Lit(-30334, -16)>>)

\* A Venus whose lower branch includes 163.7 degrees.
Venus_q_inclusive(params) ==
    IF Le(params.alpha, Lit(1637, -1))
    THEN polynomial(params.alpha,
            <<Lit(-4384, -3), Lit(-1044, -6), Lit(3687, -7), Lit(-2814, -9), Lit(8938, -12)>>)
    ELSE polynomial(params.alpha,
            <<Sub(Lit(24044228, -5), Lit(4384, -3)), Lit(-281914, -5), Lit(839034, -8)>>)

Venus_q(params) ==
    IF Lt(params.alpha, Lit(1637, -1))
    THEN polynomial(params.alpha,
            <<Lit(-4384, -3), Lit(-1044, -6), Lit(3687, -7), Lit(-2814, -9), Lit(8938, -12)>>)
    ELSE polynomial(params.alpha,
            <<Sub(Lit(24044228, -5), Lit(4384, -3)), Lit(-281914, -5), Lit(839034, -8)>>)

\* A Mars that, like Neptune, has no model before 2000.
Mars_q_since2000(params) ==
    IF params.position.t = None \/ utc_year(params.position.t) < 2000 THEN None
    ELSE IF Le(params.alpha, IntF(50))
    THEN polynomial(params.alpha, <<Lit(-1601, -3), Lit(2267, -5), Lit(-1302, -7)>>)
    ELSE IF Le(params.alpha, IntF(120))
    THEN polynomial(params.alpha,
                    <<Add(Lit(-1601, -3), Lit(1234, -3)), Lit(-2573, -5), Lit(3445, -7)>>)
    ELSE None

\* A Mars whose branches end below 50 and below 120 degrees.
Mars_q_exclusive(params) ==
    IF Lt(params.alpha, IntF(50))
    THEN polynomial(params.alpha, <<Lit(-1601, -3), Lit(2267, -5), Lit(-1302, -7)>>)
    ELSE IF Lt(params.alpha, IntF(120))
    THEN polynomial(params.alpha,
                    <<Add(Lit(-1601, -3), Lit(1234, -3)), Lit(-2573, -5), Lit(3445, -7)>>)
    ELSE None

\* A Mars whose upper branch is shifted to meet the lower one at 50 degrees.
Mars_q_continuous(params) ==
    IF Le(params.alpha, IntF(50))
    THEN polynomial(params.alpha, <<Lit(-1601, -3), Lit(2267, -5), Lit(-1302, -7)>>)
    ELSE IF Le(params.alpha, IntF(120))
    THEN polynomial(params.alpha,
                    <<Add(Lit(-1601, -3), Lit(123325, -5)), Lit(-2573, -5), Lit(3445, -7)>>)
    ELSE None

Earth_q(params) ==
    polynomial(params.alpha, <<Lit(-399, -2), Lit(-106, -5), Lit(2054, -7)>>)

Mars_q(params) ==
    IF Le(params.alpha, IntF(50))
    THEN polynomial(params.alpha, <<Lit(-1601, -3), Lit(2267, -5), Lit(-1302, -7)>>)
    ELSE IF Le(params.alpha, IntF(120))
    THEN polynomial(params.alpha,
            <<Add(Lit(-1601, -3), Lit(1234, -3)), Lit(-2573, -5), Lit(3445, -7)>>)
    ELSE None

Jupiter_q(params) ==
    IF Lt(params.alpha, IntF(12))
    THEN polynomial(params.alpha, <<Lit(-9395, -3), Lit(-37, -5), Lit(616, -6)>>)
    ELSE Minus(Sub(Lit(-9395, -3), Lit(33, -3)),
               Times(Lit(25, -1),
                     math_log10(polynomial(Div(params.alpha, IntF(180)),
                                           <<IntF(1), Lit(-1507, -3), Lit(-363, -3),
                                             Lit(-62, -3), Lit(2809, -3), Lit(-1876, -3)>>))))

\* beta = 0 in the source, and beta_factor for it.
Saturn_beta == Zero
Saturn_beta_factor(params) ==
    Mul(Sin(Saturn_beta),
        Sub(Lit(1825, -3), Mul(Lit(378, -3), math_exp(Mul(Lit(-225, -2), params.alpha)))))

\* A Saturn whose thresholds belong to the regime below them.
Saturn_q_inclusive(params) ==
    IF Le(params.alpha, Lit(65, -1))
    THEN Add(Add(Lit(-8914, -3), Mul(Lit(26, -3), params.alpha)), Saturn_beta_factor(params))
    ELSE IF Le(params.alpha, IntF(150))
    THEN polynomial(params.alpha,
            <<Add(Lit(-8914, -3), Lit(26, -3)), Lit(2446, -7), Lit(2672, -5),
              Lit(-1505, -9), Lit(4767, -12)>>)
    ELSE None

Saturn_q(params) ==
    IF Lt(params.alpha, Lit(65, -1))
    THEN Add(Add(Lit(-8914, -3), Mul(Lit(26, -3), params.alpha)), Saturn_beta_factor(params))
    ELSE IF Lt(params.alpha, IntF(150))
    THEN polynomial(params.alpha,
            <<Add(Lit(-8914, -3), Lit(26, -3)), Lit(2446, -7), Lit(2672, -5),
              Lit(-1505, -9), Lit(4767, -12)>>)
    ELSE None

\* A Neptune whose model holds in every year.
Neptune_q_anyYear(params) ==
    IF Lt(params.alpha, IntF(133))
    THEN polynomial(params.alpha, <<Lit(-700, -2), Lit(7944, -6), Lit(9617, -8)>>)
    ELSE None

\* phiprime = 0.0 in the source.
Uranus_phiprime == Zero

\* A Uranus whose model holds at 3.1 degrees too.
Uranus_q_inclusive(params) ==
    IF Le(params.alpha, Lit(31, -1))
    THEN Add(Mul(Lit(-84, -5), Uranus_phiprime),
             polynomial(params.alpha, <<Lit(-7110, -3), Lit(6587, -6), Lit(1045, -7)>>))
    ELSE None

Uranus_q(params) ==
    IF Lt(params.alpha, Lit(31, -1))
    THEN Add(Mul(Lit(-84, -5), Uranus_phiprime),
             polynomial(params.alpha, <<Lit(-7110, -3), Lit(6587, -6), Lit(1045, -7)>>))
    ELSE None

Neptune_q(params) ==
    IF /\ Lt(params.alpha, IntF(133))
       /\ params.position.t # None
       /\ utc_year(params.position.t) >= 2000
    THEN polynomial(params.alpha, <<Lit(-700, -2), Lit(7944, -6), Lit(9617, -8)>>)
    ELSE None

\* halfTan, phi1, phi2 and angleFactor of HGReflectingBody.q, and q itself.
HG_halfTan(params) == math_tan(Mul(Mul(Half, params.alpha), DEG2RAD))
HG_phi1(halfTan) == math_exp(Times(Lit(-333, -2), math_pow(halfTan, Lit(63, -2))))
HG_phi2(halfTan) == math_exp(Times(Lit(-187, -2), math_pow(halfTan, Lit(122, -2))))
HG_angleFactor(self, halfTan) ==
    Times(Lit(-25, -1),
          math_log(Plus(Times(Sub(One, self.g), HG_phi1(halfTan)),
                        Times(self.g, HG_phi2(halfTan)))))

\* An HGReflectingBody that mixes phi1 and phi2 with the weights 1 - g and 1.
HGReflectingBody_q_unweighted(self, params) ==
    Plus(self.h,
         Times(Lit(-25, -1),
               math_log(Plus(Times(Sub(One, self.g), HG_phi1(HG_halfTan(params))),
                             HG_phi2(HG_halfTan(params))))))

HGReflectingBody_q(self, params) == Plus(self.h, HG_angleFactor(self, HG_halfTan(params)))

\* self.q(params), dispatched on the class of self.
q(self, params) ==
    CASE self.cls = "Mercury" -> Mercury_q(params)
      [] self.cls = "Venus" -> Venus_q(params)
      [] self.cls = "Earth" -> Earth_q(params)
      [] self.cls = "Mars" -> Mars_q(params)
      [] self.cls = "Jupiter" -> Jupiter_q(params)
      [] self.cls = "Saturn" -> Saturn_q(params)
      [] self.cls = "Uranus" -> Uranus_q(params)
      [] self.cls = "Neptune" -> Neptune_q(params)
      [] self.cls = "HGReflectingBody" -> HGReflectingBody_q(self, params)

DistantLuminousBody_magnitude(self, position) == self.m_

\* A magnitude that takes an undefined q for 0.
ReflectingBody_sum_undefinedAsZero(qq, params) ==
    IF IsRaised(qq) THEN qq
    ELSE IF qq # None THEN Plus(qq, distanceFactor(params))
    ELSE distanceFactor(params)

ProximateLuminousBody_magnitude(self, position) ==
    Plus(self.m_,
         Times(IntF(5), Minus(Plus(math_log10(distance_au(position)), LOG_AU_TO_PC), One)))

\* q + params.distanceFactor if q is not None else None.
ReflectingBody_sum(qq, params) ==
    IF IsRaised(qq) THEN qq
    ELSE IF qq # None THEN Plus(qq, distanceFactor(params))
    ELSE None

\* ReflectingBody.magnitude, from the params that it makes of the position on.
ReflectingBody_magnitude_of(self, params) == ReflectingBody_sum(q(self, params), params)
ReflectingBody_magnitude(self, position) ==
    ReflectingBody_magnitude_of(self, ReflectionParameters_make(position))

\* A skyfield Angle, by its degrees.
Angle(degrees) == [cls |-> "Angle", degrees |-> degrees]

ReflectingBody_phaseAngle(self, position) ==
    Angle(ReflectionParameters_make(position).alpha)

\* A SolarActivatedBody that dims by 0.04 magnitudes per degree of phase angle.
SolarActivatedBody_magnitude_phased(self, params) ==
    Plus(Plus(Plus(self.g, Times(IntF(5), math_log10(params.delta))),
              Times(Mul(Lit(25, -1), self.k), math_log10(params.r))),
         Mul(Lit(4, -2), params.alpha))

\* SolarActivatedBody.magnitude, from the params that it makes of the
\* position on.
SolarActivatedBody_magnitude_of(self, params) ==
    Plus(Plus(self.g, Times(IntF(5), math_log10(params.delta))),
         Times(Mul(Lit(25, -1), self.k), math_log10(params.r)))
SolarActivatedBody_magnitude(self, position) ==
    SolarActivatedBody_magnitude_of(self, ReflectionParameters_make(position))

\* body.magnitude(position), dispatched on the class of body.
IlluminatedBody_magnitude(self, position) ==
    CASE self.cls = "DistantLuminousBody" -> DistantLuminousBody_magnitude(self, position)
      [] self.cls = "ProximateLuminousBody" -> ProximateLuminousBody_magnitude(self, position)
      [] self.cls = "SolarActivatedBody" -> SolarActivatedBody_magnitude(self, position)
      [] IsReflectingBody(self) -> ReflectingBody_magnitude(self, position)
\* A table that also binds Mars itself (499).
StandardBodiesWithMars ==
    (1 :> Mercury) @@ (199 :> Mercury) @@ (2 :> Venus) @@ (299 :> Venus)
    @@ (3 :> Earth) @@ (399 :> Earth) @@ (4 :> Mars) @@ (499 :> Mars)
    @@ (5 :> Jupiter) @@ (6 :> Saturn) @@ (7 :> Uranus) @@ (8 :> Neptune)
    @@ (9 :> HGReflectingBody(Lit(-45, -2), Lit(15, -2)))
    @@ (10 :> ProximateLuminousBody(Lit(483, -2)))


\* The table of the major bodies, as the module builds it.
StandardBodies ==
    (1 :> Mercury) @@ (199 :> Mercury) @@ (2 :> Venus) @@ (299 :> Venus) @@
    (3 :> Earth) @@ (399 :> Earth) @@ (4 :> Mars) @@ (5 :> Jupiter) @@
    (6 :> Saturn) @@ (7 :> Uranus) @@ (8 :> Neptune) @@
    (9 :> HGReflectingBody(Lit(-45, -2), Lit(15, -2))) @@
    (10 :> ProximateLuminousBody(Lit(483, -2)))

\* The fields of a catalog row that model selection reads.
MagnitudeFields == {"magnitude_H", "magnitude_G", "magnitude_g", "magnitude_k", "magnitude"}

\* A catalog row (a pandas Series): data maps the names in its index to values.
Series(data) == [cls |-> "Series", data |-> data]
index(dataFrame) == DOMAIN dataFrame.data

\* An Observable (a VectorFunction or a Star) with the identifier of its target.
Observable(target) == [cls |-> "VectorFunction", target |-> target]
\* Selection that tries the scalar magnitude of the row before the pairs.
IlluminatedBody_make_magnitudeFirst(standardBodies, position, dataFrame) ==
    IF position # None /\ position.target \in DOMAIN standardBodies
    THEN standardBodies[position.target]
    ELSE IF dataFrame # None /\ "magnitude" \in index(dataFrame)
    THEN DistantLuminousBody(dataFrame.data["magnitude"])
    ELSE IF dataFrame # None /\ "magnitude_H" \in index(dataFrame)
            /\ "magnitude_G" \in index(dataFrame)
    THEN HGReflectingBody(dataFrame.data["magnitude_H"], dataFrame.data["magnitude_G"])
    ELSE IF dataFrame # None /\ "magnitude_g" \in index(dataFrame)
            /\ "magnitude_k" \in index(dataFrame)
    THEN SolarActivatedBody(dataFrame.data["magnitude_g"], dataFrame.data["magnitude_k"])
    ELSE None

\* Selection that consults the row before the table.
IlluminatedBody_make_rowFirst(standardBodies, position, dataFrame) ==
    IF dataFrame # None /\ "magnitude_H" \in index(dataFrame)
       /\ "magnitude_G" \in index(dataFrame)
    THEN HGReflectingBody(dataFrame.data["magnitude_H"], dataFrame.data["magnitude_G"])
    ELSE IF dataFrame # None /\ "magnitude_g" \in index(dataFrame)
            /\ "magnitude_k" \in index(dataFrame)
    THEN SolarActivatedBody(dataFrame.data["magnitude_g"], dataFrame.data["magnitude_k"])
    ELSE IF dataFrame # None /\ "magnitude" \in index(dataFrame)
    THEN DistantLuminousBody(dataFrame.data["magnitude"])
    ELSE IF position # None /\ position.target \in DOMAIN standardBodies
    THEN standardBodies[position.target]
    ELSE None


\* IlluminatedBody.make(position, dataFrame), reading the table standardBodies.
IlluminatedBody_make(standardBodies, position, dataFrame) ==
    IF position # None /\ position.target \in DOMAIN standardBodies
    THEN standardBodies[position.target]
    ELSE IF dataFrame # None /\ "magnitude_H" \in index(dataFrame)
                             /\ "magnitude_G" \in index(dataFrame)
    THEN HGReflectingBody(dataFrame.data["magnitude_H"], dataFrame.data["magnitude_G"])
    ELSE IF dataFrame # None /\ "magnitude_g" \in index(dataFrame)
                             /\ "magnitude_k" \in index(dataFrame)
    THEN SolarActivatedBody(dataFrame.data["magnitude_g"], dataFrame.data["magnitude_k"])
    ELSE IF dataFrame # None /\ "magnitude" \in index(dataFrame)
    THEN DistantLuminousBody(dataFrame.data["magnitude"])
    ELSE None

-----------------------------------------------------------------------------
(* The inputs.                                                             *)

\* Observation times run from 1999-01-01 UTC over MaxT years.
MaxT == 1
\* The number of objects a session holds.
MaxObjects == 2

Timestamps == {Time(u) : u \in 0 .. MaxT}
Positions ==
    {Astrometric(cb, pos, t) : cb \in ObserverVectors, pos \in TargetVectors,
                               t \in Timestamps \cup {None}}

\* In a session the observer stands MaxCoord AU from the barycenter, and the
\* targets lie towards the barycenter and one AU beyond and beside the observer.
SessionVectors == {<<x, y, 0>> : x \in -MaxCoord .. 1, y \in -1 .. 1}
SessionPositions ==
    {Astrometric(<<MaxCoord, 0, 0>>, pos, t) : pos \in SessionVectors,
                                               t \in Timestamps \cup {None}}

\* Values of catalog fields: the H and G of Pluto stand for any row's numbers.
CatalogValues == {Lit(-45, -2), Lit(15, -2)}
\* Every catalog row over the fields that model selection reads.
Rows == {Series(d) : d \in UNION {[S -> CatalogValues] : S \in SUBSET MagnitudeFields}}
\* Targets outside the table: the Moon, Mars itself, Ceres, comet Halley, and
\* 0 for a position without an integer target (a Star).
OtherTargets == {0, 301, 499, 1000036, 2000001}
Targets == DOMAIN StandardBodies \cup OtherTargets

\* The objects that the accessors of Data make: the accessor, the type, the
\* target of the position, and the row of the catalog (None for a body of the
\* ephemeris).
Accessor(name, type, target, dataFrame) ==
    [name |-> name, type |-> type, target |-> target, dataFrame |-> dataFrame]

Inventory ==
    {Accessor("sun", "STAR", 10, None), Accessor("moon", "MOON", 301, None),
     Accessor("mercury", "PLANET", 199, None), Accessor("venus", "PLANET", 299, None),
     Accessor("earth", "PLANET", 399, None), Accessor("mars", "PLANET", 4, None),
     Accessor("jupiter", "PLANET", 5, None), Accessor("saturn", "PLANET", 6, None),
     Accessor("uranus", "PLANET", 7, None), Accessor("neptune", "PLANET", 8, None),
     Accessor("pluto", "PLANET", 9, None),
     Accessor("minorPlanet", "MINOR_PLANET", 2000001,
              Series([magnitude_H |-> Lit(334, -2), magnitude_G |-> Lit(12, -2)])),
     Accessor("comet", "COMET", 1000036,
              Series([magnitude_g |-> Lit(55, -1), magnitude_k |-> IntF(8)])),
     Accessor("star", "STAR", 0, Series([magnitude |-> Lit(-144, -2)]))}

\* Any body of the ephemeris, and the minor planet, the comet and the star of
\* the inventory.
Bodies ==
    {Accessor("ephemeris", "PLANET", target, None) : target \in Targets}
    \cup {a \in Inventory : a.dataFrame # None}

\* The models that the objects of the inventory and the bodies are bound to.
Models ==
    {IlluminatedBody_make(StandardBodies, Observable(a.target), a.dataFrame) :
        a \in Inventory \cup Bodies} \ {None}

\* body.magnitude(position) of every model at every position, evaluated once.
MagnitudeOf ==
    [self \in Models |->
        [position \in Positions |-> IlluminatedBody_magnitude(self, position)] @@ <<>>] @@ <<>>

\* self.illumination.magnitude(position)
illumination_magnitude(self, position) == MagnitudeOf[self][position]

-----------------------------------------------------------------------------
(* base/object.py and Data.observe of base/data.py                         *)

ObjectType == {"PLANET", "STAR", "MINOR_PLANET", "COMET", "MOON"}

\* makeObject(type, name, position, dataFrame): the fields of the
\* CelestialObject that the magnitude engine reads.
makeObject(standardBodies, type, position, dataFrame) ==
    [type |-> type,
     position |-> position,
     illumination |-> IlluminatedBody_make(standardBodies, position, dataFrame)]

CelestialObject_magnitude(self, position) ==
    IF self.illumination # None
    THEN illumination_magnitude(self.illumination, position)
    ELSE None

\* A phase angle that is absent when the magnitude is.
Observation_phaseAngle_withMagnitude(self) ==
    IF IsReflectingBody(self.target.illumination) /\ self.magnitude # None
    THEN ReflectingBody_phaseAngle(self.target.illumination, self.position)
    ELSE None

\* The Observation that Data.observe returns for a target at a position.
Observation(target, position, magnitude) ==
    [target |-> target, position |-> position, magnitude |-> magnitude]

Observation_phaseAngle(self) ==
    IF IsReflectingBody(self.target.illumination)
    THEN ReflectingBody_phaseAngle(self.target.illumination, self.position)
    ELSE None

-----------------------------------------------------------------------------
(* The state: the table of major bodies (process-wide), the objects made   *)
(* so far, by accessor, and the last call with the value it returned; the  *)
(* TextTable of the report; the star_names directory on disk, the          *)
(* StarNames that the process holds, and the position of the process in    *)
(* StarNames.reload.                                                       *)

VARIABLES STANDARD_BODIES, objects, call, table, disk, starNames, pc

vars == <<STANDARD_BODIES, objects, call, table, disk, starNames, pc>>

Init ==
    /\ STANDARD_BODIES = StandardBodies
    /\ objects = <<>>
    /\ call = [op |-> "import"]
    /\ table = None
    /\ disk = [exists |-> FALSE, files |-> <<>>]
    /\ starNames = None
    /\ pc = [step |-> "idle"]

\* makeObject for the accessor a, which Data keeps (cached_property): at most
\* limit objects are made.
MakeObjectFor(a, limit) ==
    LET position == Observable(a.target)
        obj == makeObject(STANDARD_BODIES, a.type, position, a.dataFrame)
    IN  /\ a.name \notin DOMAIN objects
        /\ Cardinality(DOMAIN objects) < limit
        /\ objects' = objects @@ (a.name :> obj)
        /\ call' = [op |-> "makeObject", name |-> a.name, position |-> position,
                    dataFrame |-> a.dataFrame, value |-> obj]
        /\ UNCHANGED <<STANDARD_BODIES, table, disk, starNames, pc>>

\* A magnitude that rebinds the Sun of the table to the model of Pluto.
MagnitudeAt_rebinding(name, position) ==
    /\ call' = [op |-> "magnitude", name |-> name, position |-> position,
                value |-> CelestialObject_magnitude(objects[name], position)]
    /\ STANDARD_BODIES' = [STANDARD_BODIES EXCEPT ![10] = STANDARD_BODIES[9]]
    /\ UNCHANGED <<objects, table, disk, starNames, pc>>

\* target.magnitude(position).
MagnitudeAt(name, position) ==
    /\ call' = [op |-> "magnitude", name |-> name, position |-> position,
                value |-> CelestialObject_magnitude(objects[name], position)]
    /\ UNCHANGED <<STANDARD_BODIES, objects, table, disk, starNames, pc>>

\* data.observe(observer, target, when): the ephemeris gives the astrometric
\* position at the time (of when, or now); an exception raised by magnitude
\* leaves no Observation.
ObserveAt(name, position) ==
    LET target == objects[name]
        Returning(magnitude_) ==
            IF IsRaised(magnitude_) THEN magnitude_
            ELSE Observation(target, position, magnitude_)
    IN  /\ position.t # None
        /\ call' = [op |-> "observe", name |-> name, position |-> position,
                    value |-> Returning(CelestialObject_magnitude(target, position))]
        /\ UNCHANGED <<STANDARD_BODIES, objects, table, disk, starNames, pc>>

\* observation.phaseAngle, read from the Observation just returned.
PhaseAngle ==
    /\ call.op = "observe"
    /\ ~IsRaised(call.value)
    /\ call' = [op |-> "phaseAngle", name |-> call.name, observation |-> call.value,
                value |-> Observation_phaseAngle(call.value)]
    /\ UNCHANGED <<STANDARD_BODIES, objects, table, disk, starNames, pc>>

\* ReflectionParameters.make(position).
DeriveGeometry ==
    /\ call.op = "import"
    /\ \E position \in Positions :
        /\ call' = [op |-> "ReflectionParameters.make", position |-> position,
                    value |-> ReflectionParameters_make(position)]
        /\ UNCHANGED <<STANDARD_BODIES, objects, table, disk, starNames, pc>>

(* A session: objects of the inventory are made, observed and asked for    *)
(* their magnitude, in any order.                                          *)
MakeObject == \E a \in Inventory : MakeObjectFor(a, MaxObjects)
Magnitude == \E name \in DOMAIN objects, position \in SessionPositions : MagnitudeAt(name, position)
Observe == \E name \in DOMAIN objects, position \in SessionPositions : ObserveAt(name, position)

Next == MakeObject \/ Magnitude \/ Observe \/ PhaseAngle

Spec == Init /\ [][Next]_vars

(* One body, of any kind, at any position: it is made, and then observed   *)
(* or asked for its magnitude once; the geometry of any position is        *)
(* derived.                                                                *)
MakeBody == \E a \in Bodies : MakeObjectFor(a, 1)
MagnitudeOnce ==
    /\ call.op = "makeObject"
    /\ \E name \in DOMAIN objects, position \in Positions : MagnitudeAt(name, position)
ObserveOnce ==
    /\ call.op = "makeObject"
    /\ \E name \in DOMAIN objects, position \in Positions : ObserveAt(name, position)

NextBody == MakeBody \/ MagnitudeOnce \/ ObserveOnce \/ PhaseAngle \/ DeriveGeometry

SpecBody == Init /\ [][NextBody]_vars

(* Model selection alone: one object is made from any target and any       *)
(* catalog row.                                                            *)
MakeAnyObject ==
    /\ objects = <<>>
    /\ \E type \in ObjectType, position \in {Observable(t) : t \in Targets} \cup {None},
          dataFrame \in Rows \cup {None} :
        LET obj == makeObject(STANDARD_BODIES, type, position, dataFrame)
        IN  /\ objects' = ("object" :> obj)
            /\ call' = [op |-> "makeObject", name |-> "object", position |-> position,
                        dataFrame |-> dataFrame, value |-> obj]
            /\ UNCHANGED <<STANDARD_BODIES, table, disk, starNames, pc>>

NextMake == MakeAnyObject

SpecMake == Init /\ [][NextMake]_vars

-----------------------------------------------------------------------------
(* Properties of model selection, checked under SpecMake.                  *)

\* The last call made an object from a position and a row.
Made == call.op = "makeObject"
\* The target of the position of the last call is a key of the table.
TableBound == call.position # None /\ call.position.target \in DOMAIN STANDARD_BODIES
\* The row of the last call exposes every field of fields.
Exposes(fields) == call.dataFrame # None /\ fields \subseteq index(call.dataFrame)

\* C1: for a body outside the table, a row exposing magnitude_H and
\* magnitude_G binds HGReflectingBody of them, whatever else it exposes;
\* otherwise a row exposing magnitude_g and magnitude_k binds
\* SolarActivatedBody; otherwise a row exposing magnitude binds
\* DistantLuminousBody: half a pair matches no rule.
C1_PriorityCascade ==
    Made /\ call.dataFrame # None /\ ~TableBound =>
        LET row == call.dataFrame.data
            hg == Exposes({"magnitude_H", "magnitude_G"})
            gk == Exposes({"magnitude_g", "magnitude_k"})
            illumination == call.value.illumination
        IN  /\ hg => illumination = HGReflectingBody(row["magnitude_H"], row["magnitude_G"])
            /\ ~hg /\ gk =>
                 illumination = SolarActivatedBody(row["magnitude_g"], row["magnitude_k"])
            /\ ~hg /\ ~gk /\ Exposes({"magnitude"}) =>
                 illumination = DistantLuminousBody(row["magnitude"])

\* A row of a body outside the table with H, G and the scalar magnitude has
\* bound HGReflectingBody.
C1_Witness ==
    /\ Made /\ ~TableBound
    /\ call.dataFrame # None
    /\ index(call.dataFrame) = {"magnitude_H", "magnitude_G", "magnitude"}
    /\ call.value.illumination.cls = "HGReflectingBody"

\* C2: when the target of the position is a key of the table, the object is
\* bound to the entry of the table, whatever the row exposes.
C2_TableWins ==
    Made /\ TableBound => call.value.illumination = STANDARD_BODIES[call.position.target]

\* Jupiter (5) made with a row exposing all five fields is bound to the
\* Jupiter model.
C2_Witness ==
    /\ Made /\ TableBound
    /\ call.position.target = 5
    /\ Exposes(MagnitudeFields)
    /\ call.value.illumination = Jupiter

\* The model that the table must hold for a target, as the claim C3 lists it.
ListedModel(target) ==
    CASE target \in {1, 199} -> Mercury
      [] target \in {2, 299} -> Venus
      [] target \in {3, 399} -> Earth
      [] target = 4 -> Mars
      [] target = 5 -> Jupiter
      [] target = 6 -> Saturn
      [] target = 7 -> Uranus
      [] target = 8 -> Neptune
      [] target = 9 -> HGReflectingBody(Lit(-45, -2), Lit(15, -2))
      [] target = 10 -> ProximateLuminousBody(Lit(483, -2))

\* C3, as stated: the planet identifier and the barycenter identifier of
\* each of Mercury, Venus, Earth and Mars select the model of the planet,
\* 499 included.
C3_BothIdentifiers ==
    Made /\ call.position # None /\ call.position.target \in {199, 299, 399, 499, 1, 2, 3, 4} =>
        call.value.illumination =
            IF call.position.target = 499 THEN Mars ELSE ListedModel(call.position.target)

\* C3, amended: the table holds ten models under thirteen keys; the planet
\* and barycenter identifiers of Mercury, Venus and Earth select their
\* models, Mars is selected by its barycenter (4) alone, 10 selects
\* ProximateLuminousBody(4.83) and 9 selects HGReflectingBody(-0.45, 0.15);
\* 499 is no key, and an object made for it is bound by its row alone.
C3_Table ==
    /\ Cardinality({STANDARD_BODIES[k] : k \in DOMAIN STANDARD_BODIES}) = 10
    /\ DOMAIN STANDARD_BODIES = (1 .. 10) \cup {199, 299, 399}
    /\ \A k \in DOMAIN STANDARD_BODIES : STANDARD_BODIES[k] = ListedModel(k)
    /\ Made /\ TableBound =>
         call.value.illumination = ListedModel(call.position.target)
    /\ Made /\ call.position # None /\ call.position.target = 499 =>
         /\ call.value.illumination # Mars
         /\ call.dataFrame = None => call.value.illumination = None

\* Mars itself (499), made without a row, has no illumination model.
C3_Witness ==
    /\ Made /\ call.position # None
    /\ call.position.target = 499
    /\ call.dataFrame = None
    /\ call.value.illumination = None

-----------------------------------------------------------------------------
(* Properties of magnitude and of observations, checked under SpecBody     *)
(* and, where two calls are compared, under Spec.                          *)

\* The last call asked the object call.name for its magnitude at
\* call.position, directly or in an observation.
Asked == call.op \in {"magnitude", "observe"}
\* The illumination model of the object of the last call.
Bound == objects[call.name].illumination
\* The geometry of the position of the last call.
Derived == ReflectionParameters_make(call.position)
\* What the last call returned as the magnitude.
Returned ==
    IF call.op = "observe" /\ ~IsRaised(call.value) THEN call.value.magnitude ELSE call.value
\* The q of the bound model is undefined at the geometry of the last call.
Undefined == Bound # None /\ IsReflectingBody(Bound) /\ q(Bound, Derived) = None

\* C4: the magnitude of an object without a model is None, the magnitude of
\* a reflecting body whose q is None is None, and an Observation holds the
\* value that target.magnitude(position) returns.
C4_NoneMerged ==
    /\ Asked /\ Bound = None => Returned = None
    /\ Asked /\ Undefined => Returned = None
    /\ call.op = "observe" /\ ~IsRaised(call.value) =>
         call.value.magnitude = CelestialObject_magnitude(call.value.target, call.value.position)

\* Neptune was observed in 1999 at no distance from the observer, where the
\* distance factor has no value: the Observation holds None.
C4_Witness ==
    /\ call.op = "observe" /\ ~IsRaised(call.value)
    /\ Bound = Neptune
    /\ Undefined /\ IsZero(Derived.delta)
    /\ IsRaised(distanceFactor(Derived))
    /\ call.value.magnitude = None

\* C5: magnitude never raises, and neither does model selection.
C5_NeverRaises ==
    /\ Asked => ~IsRaised(call.value)
    /\ Made => ~IsRaised(call.value.illumination)

\* Pluto at 1 AU from the Sun and from the observer, at a phase angle of 180
\* degrees: magnitude raised ValueError.
C5_Witness ==
    /\ call.op = "magnitude"
    /\ Bound = HGReflectingBody(Lit(-45, -2), Lit(15, -2))
    /\ Derived.r = One /\ Derived.delta = One /\ Derived.alpha = IntF(180)
    /\ call.value = ValueError

\* The object of the last call is bound by the table.
BoundByTable == objects[call.name].position.target \in DOMAIN STANDARD_BODIES
\* The triple that a position derives.
Triple(position) ==
    LET params == ReflectionParameters_make(position)
    IN  <<params.r, params.delta, params.alpha>>
\* The position carries a timestamp of the year 2000 or later.
Since2000(position) == position.t # None /\ utc_year(position.t) >= 2000
\* Two calls in a row ask the same object for its magnitude.
AskedAgain ==
    /\ call.op = "magnitude" /\ call'.op = "magnitude"
    /\ call'.name = call.name

\* C6, as stated: two positions that derive the same triple give a body of
\* the table the same magnitude.
C6_TripleOnly ==
    [][AskedAgain /\ BoundByTable /\ Triple(call'.position) = Triple(call.position)
         => call'.value = call.value]_vars

\* C6, amended: two positions that derive the same triple give a body of the
\* table the same magnitude, if the body is not Neptune or if both or
\* neither position carries a timestamp of 2000 or later.
C6_TripleAndEpoch ==
    [][(/\ AskedAgain /\ BoundByTable
        /\ Triple(call'.position) = Triple(call.position)
        /\ Bound # Neptune \/ Since2000(call'.position) = Since2000(call.position))
         => call'.value = call.value]_vars

\* Neptune has a magnitude at a position of the year 2000, and None at the
\* same vectors in 1999.
C6_Witness ==
    /\ call.op = "magnitude" /\ BoundByTable
    /\ Bound = Neptune
    /\ Since2000(call.position)
    /\ call.value # None /\ ~IsRaised(call.value)
    /\ CelestialObject_magnitude(objects[call.name], [call.position EXCEPT !.t = Time(0)]) = None

\* C7: a call of magnitude or of observe changes neither the table nor any
\* object, and asking an object of the table twice for its magnitude at one
\* position returns the same value twice.
C7_Frame ==
    [][/\ call'.op \in {"magnitude", "observe"} => UNCHANGED <<STANDARD_BODIES, objects>>
       /\ AskedAgain /\ BoundByTable /\ call'.position = call.position
            => call'.value = call.value]_vars

\* Jupiter, one of two objects, was asked for its magnitude and has one; it
\* is still bound to the Jupiter of the table.
C7_Witness ==
    /\ call.op = "magnitude" /\ call.name = "jupiter"
    /\ Cardinality(DOMAIN objects) = 2
    /\ call.value # None /\ ~IsRaised(call.value)
    /\ Bound = Jupiter /\ STANDARD_BODIES[5] = Jupiter

\* C8: the phase angle of an Observation is present exactly when the target
\* is bound to one of the eight planet models or to HGReflectingBody, and it
\* is then the alpha derived from the position of the Observation.
C8_PhaseAngle ==
    call.op = "phaseAngle" =>
        LET observation == call.observation
            illumination == observation.target.illumination
            reflecting ==
                /\ illumination # None
                /\ illumination.cls \in {"Mercury", "Venus", "Earth", "Mars", "Jupiter",
                                         "Saturn", "Uranus", "Neptune", "HGReflectingBody"}
        IN  /\ call.value # None <=> reflecting
            /\ reflecting =>
                 call.value = Angle(ReflectionParameters_make(observation.position).alpha)

\* The Observation of a Mars without magnitude has a phase angle.
C8_Witness ==
    /\ call.op = "phaseAngle"
    /\ call.observation.target.illumination = Mars
    /\ call.observation.magnitude = None
    /\ call.value # None

\* The last call derived the geometry of a position.
DerivedGeometry == call.op = "ReflectionParameters.make"
\* The geometry in which the vector from the Sun to the observer is
\* sunToObserver, and the vector from the observer to the body is that of
\* the position of the last call.
GeometryFrom(sunToObserver) ==
    LET observerToBody == VFloat(call.position.position)
        sunToBody == VAdd(sunToObserver, observerToBody)
    IN  [position |-> call.position,
         r |-> length_of(sunToBody),
         delta |-> length_of(observerToBody),
         alpha |-> Mul(angle_between(VNeg(sunToBody), VNeg(observerToBody)), RAD2DEG)]

\* C9, as stated: the geometry is derived with the negation of the
\* barycentric position of the observer as the vector from the Sun to the
\* observer.
C9_Negation ==
    DerivedGeometry =>
        call.value = GeometryFrom(VNeg(VFloat(call.position.center_barycentric)))

\* C9, amended: the geometry is derived with the barycentric position of the
\* observer itself as the vector from the Sun to the observer: sunToBody is
\* its sum with the vector from the observer to the body, r and delta are
\* the lengths of sunToBody and observerToBody, and alpha is the angle
\* between their negations.
C9_Geometry ==
    DerivedGeometry => call.value = GeometryFrom(VFloat(call.position.center_barycentric))

\* An observer 1 AU from the barycenter and a body 1 AU beyond: r is 2, and
\* not the 0 that the negation gives.
C9_Witness ==
    /\ DerivedGeometry
    /\ call.position.center_barycentric = <<1, 0, 0>>
    /\ call.position.position = <<1, 0, 0>>
    /\ call.value.r = Two
    /\ GeometryFrom(VNeg(VFloat(call.position.center_barycentric))).r = Zero

\* The parameters of a phase angle of alpha degrees at the time t.
ParametersAt(alpha, t) ==
    [position |-> Astrometric(<<1, 0, 0>>, <<1, 0, 0>>, t), r |-> Two, delta |-> One,
     alpha |-> alpha]

\* C10: the q of Neptune is defined exactly when alpha is below 133 and the
\* position carries a timestamp of the year 2000 or later; otherwise the
\* magnitude is None, and where q is defined, the magnitude is not None.  At
\* 50 degrees, q is undefined in 1999 and defined in 2000.
C10_Neptune ==
    /\ Asked /\ Bound = Neptune =>
         LET defined == Lt(Derived.alpha, IntF(133)) /\ Since2000(call.position)
         IN  /\ Neptune_q(Derived) # None <=> defined
             /\ Returned = None <=> ~defined
    /\ Neptune_q(ParametersAt(IntF(50), Time(0))) = None
    /\ Neptune_q(ParametersAt(IntF(50), Time(1))) # None
    /\ Neptune_q(ParametersAt(IntF(50), None)) = None

\* Neptune, below 133 degrees in 1999, has no magnitude.
C10_Witness ==
    /\ call.op = "magnitude"
    /\ Bound = Neptune
    /\ Lt(Derived.alpha, IntF(133))
    /\ call.position.t = Time(0)
    /\ call.value = None

-----------------------------------------------------------------------------
(* The phase functions on parameters of any phase angle: q(params) and the  *)
(* magnitude that ReflectingBody.magnitude and SolarActivatedBody.magnitude *)
(* compute from the params, for params that are given and not derived: one  *)
(* call from the state after import.                                        *)

\* Phase angles run over the multiples of 5 degrees up to 5 * MaxAlpha, and
\* over the tenths of a degree next to the thresholds of the phase functions.
MaxAlpha == 36

ThresholdTenths ==
    {30, 31, 32, 64, 65, 66, 119, 120, 121, 499, 500, 501, 1199, 1200, 1201,
     1329, 1330, 1331, 1499, 1500, 1501, 1636, 1637, 1638}
Alphas == {IntF(5 * d) : d \in 0 .. MaxAlpha} \cup {Lit(k, -1) : k \in ThresholdTenths}

\* The distances r and delta of the params, in AU.
Distances == {<<One, One>>, <<Two, One>>, <<One, Two>>, <<Zero, One>>, <<One, Zero>>}

\* ReflectionParameters(position, r, delta, alpha) for a position of time t.
ParametersOf(r, delta, alpha, t) ==
    ReflectionParameters(Astrometric(<<0, 0, 0>>, <<1, 0, 0>>, t),
                         [r |-> r, delta |-> delta, alpha |-> alpha])

\* The reflecting models and the comet of the inventory.
ReflectingModels == {m \in Models : IsReflectingBody(m)}
SolarActivatedModels == {m \in Models : m.cls = "SolarActivatedBody"}

\* self.q(params)
AskQ ==
    /\ call.op = "import"
    /\ \E self \in ReflectingModels, alpha \in Alphas, t \in {Time(MaxT), None} :
        /\ call' = [op |-> "q", self |-> self, params |-> ParametersOf(One, One, alpha, t),
                    value |-> q(self, ParametersOf(One, One, alpha, t))]
        /\ UNCHANGED <<STANDARD_BODIES, objects, table, disk, starNames, pc>>

\* ReflectingBody.magnitude from the params on.
AskReflected ==
    /\ call.op = "import"
    /\ \E self \in ReflectingModels, alpha \in Alphas, d \in Distances, t \in {Time(MaxT), None} :
        /\ call' = [op |-> "ReflectingBody.magnitude", self |-> self,
                    params |-> ParametersOf(d[1], d[2], alpha, t),
                    value |-> ReflectingBody_magnitude_of(self, ParametersOf(d[1], d[2], alpha, t))]
        /\ UNCHANGED <<STANDARD_BODIES, objects, table, disk, starNames, pc>>

\* SolarActivatedBody.magnitude from the params on.
AskSolarActivated ==
    /\ call.op = "import"
    /\ \E self \in SolarActivatedModels, alpha \in Alphas, d \in Distances :
        /\ call' = [op |-> "SolarActivatedBody.magnitude", self |-> self,
                    params |-> ParametersOf(d[1], d[2], alpha, None),
                    value |-> SolarActivatedBody_magnitude_of(self,
                                  ParametersOf(d[1], d[2], alpha, None))]
        /\ UNCHANGED <<STANDARD_BODIES, objects, table, disk, starNames, pc>>

NextParams == AskQ \/ AskReflected \/ AskSolarActivated

SpecParams == Init /\ [][NextParams]_vars

-----------------------------------------------------------------------------
(* Properties of the phase functions, checked under SpecParams.            *)

\* The last call asked the model `self` for its q.
AskedQ(self) == call.op = "q" /\ call.self = self
\* The last call asked the model `self` for its magnitude from params.
AskedReflected(self) == call.op = "ReflectingBody.magnitude" /\ call.self = self
\* The phase angle of the params of the last call is below, or at most, d degrees.
Below(d) == Lt(call.params.alpha, d)
AtMost(d) == Le(call.params.alpha, d)
\* |a|
AbsF(a) == [m |-> Abs(a.m), e |-> a.e]

\* The two polynomials of Mars, as the claim C11 lists them.
MarsLow(alpha) == polynomial(alpha, <<Lit(-1601, -3), Lit(2267, -5), Lit(-1302, -7)>>)
MarsHigh(alpha) ==
    polynomial(alpha, <<Add(Lit(-1601, -3), Lit(1234, -3)), Lit(-2573, -5), Lit(3445, -7)>>)

\* C11: the q of Mars is the low polynomial up to 50 degrees (50 included),
\* the high polynomial above 50 and up to 120 degrees (120 included), and
\* undefined above 120 degrees, where the magnitude is None; q(121) is
\* undefined.
C11_MarsBranches ==
    /\ AskedQ(Mars) =>
         call.value = IF AtMost(IntF(50)) THEN MarsLow(call.params.alpha)
                      ELSE IF AtMost(IntF(120)) THEN MarsHigh(call.params.alpha)
                      ELSE None
    /\ AskedReflected(Mars) => (call.value = None <=> ~AtMost(IntF(120)))
    /\ Mars_q(ParametersOf(One, One, IntF(121), None)) = None
    /\ ReflectingBody_magnitude_of(Mars, ParametersOf(One, One, IntF(121), None)) = None

\* Mars was asked for its q at 120 degrees, and it has the value of the high
\* polynomial.
C11_Witness ==
    /\ AskedQ(Mars)
    /\ call.params.alpha = IntF(120)
    /\ call.value = MarsHigh(IntF(120))
    /\ call.value # MarsLow(IntF(120))

\* The difference of the two polynomials of Mars at 50 degrees.
MarsStep == AbsF(Sub(MarsLow(IntF(50)), MarsHigh(IntF(50))))

\* C12, as stated: at 50 degrees the low and the high polynomial of Mars
\* agree to within floating-point tolerance (a relative 10^-6 here).
C12_Continuous ==
    AskedQ(Mars) /\ call.params.alpha = IntF(50) => Le(MarsStep, Lit(1, -6))

\* C12, amended: at 50 degrees the q of Mars is the low polynomial, -0.793,
\* and the high polynomial lies 0.00075 above it (between 0.0007 and 0.0008):
\* the curve steps by that much just above 50 degrees, where q is the high
\* polynomial.
C12_Step ==
    /\ AskedQ(Mars) /\ call.params.alpha = IntF(50) =>
         /\ call.value = MarsLow(IntF(50))
         /\ Lt(call.value, MarsHigh(IntF(50)))
         /\ Gt(MarsStep, Lit(7, -4)) /\ Lt(MarsStep, Lit(8, -4))
    /\ AskedQ(Mars) /\ call.params.alpha = Lit(501, -1) =>
         call.value = MarsHigh(Lit(501, -1))

\* Mars was asked for its q at 50 degrees: -0.793, the value of the low
\* polynomial, and not the -0.79225 of the high one.
C12_Witness ==
    /\ AskedQ(Mars)
    /\ call.params.alpha = IntF(50)
    /\ call.value = Lit(-793, -3)
    /\ MarsHigh(IntF(50)) = Lit(-79225, -5)

\* The two polynomials of Venus: the five coefficients from -4.384 on, and the
\* three whose constant term is 240.44228 - 4.384.
VenusLow(alpha) ==
    polynomial(alpha,
        <<Lit(-4384, -3), Lit(-1044, -6), Lit(3687, -7), Lit(-2814, -9), Lit(8938, -12)>>)
VenusHigh(alpha) ==
    polynomial(alpha,
        <<Sub(Lit(24044228, -5), Lit(4384, -3)), Lit(-281914, -5), Lit(839034, -8)>>)

\* C13: the q of Venus is defined at every phase angle and never raises:
\* it is the five-coefficient polynomial below 163.7 degrees and the
\* three-coefficient one from 163.7 degrees on, 163.7 included; 163.6 and
\* 163.8 degrees evaluate by their own branches.
C13_VenusBranches ==
    /\ AskedQ(Venus) =>
         /\ call.value # None /\ ~IsRaised(call.value)
         /\ call.value = IF Below(Lit(1637, -1)) THEN VenusLow(call.params.alpha)
                         ELSE VenusHigh(call.params.alpha)
    /\ Venus_q(ParametersOf(One, One, Lit(1636, -1), None)) = VenusLow(Lit(1636, -1))
    /\ Venus_q(ParametersOf(One, One, Lit(1638, -1), None)) = VenusHigh(Lit(1638, -1))

\* Venus was asked for its q at 163.7 degrees: the value of the upper
\* polynomial, which is not that of the lower one.
C13_Witness ==
    /\ AskedQ(Venus)
    /\ call.params.alpha = Lit(1637, -1)
    /\ call.value = VenusHigh(Lit(1637, -1))
    /\ call.value # VenusLow(Lit(1637, -1))

\* The model the table binds to key 9 (Pluto): HGReflectingBody(-0.45, 0.15).
Pluto == StandardBodies[9]

\* C14: at a phase angle of 0 degrees, phi1 and phi2 of HGReflectingBody are
\* 1 and its angle factor is 0: the q of HGReflectingBody(-0.45, 0.15) is
\* -0.45 exactly, and so is its magnitude at r = delta = 1 AU, from given
\* params and from the position of an observer at the barycenter.
C14_ZeroPhase ==
    /\ Pluto = HGReflectingBody(Lit(-45, -2), Lit(15, -2))
    /\ HG_phi1(HG_halfTan(ParametersOf(One, One, Zero, None))) = One
    /\ HG_phi2(HG_halfTan(ParametersOf(One, One, Zero, None))) = One
    /\ HG_angleFactor(Pluto, HG_halfTan(ParametersOf(One, One, Zero, None))) = Zero
    /\ AskedQ(Pluto) /\ IsZero(call.params.alpha) => call.value = Pluto.h
    /\ AskedReflected(Pluto) /\ IsZero(call.params.alpha)
         /\ call.params.r = One /\ call.params.delta = One => call.value = Lit(-45, -2)
    /\ illumination_magnitude(Pluto, Astrometric(<<0, 0, 0>>, <<1, 0, 0>>, None)) = Lit(-45, -2)

\* Pluto was asked for its magnitude at 0 degrees and 1 AU from the Sun and
\* from the observer: -0.45.
C14_Witness ==
    /\ AskedReflected(Pluto)
    /\ IsZero(call.params.alpha)
    /\ call.params.r = One /\ call.params.delta = One
    /\ call.value = Lit(-45, -2)

\* SolarActivatedBody.magnitude was called on self with the params of call.
AskedSolarActivated(self) ==
    call.op = "SolarActivatedBody.magnitude" /\ call.self = self

\* g + 5 * log10(delta) + 2.5 * k * log10(r), for positive r and delta.
SolarFormula(self, r, delta) ==
    Add(Add(self.g, Mul(IntF(5), math_log10(delta))),
        Mul(Mul(Lit(25, -1), self.k), math_log10(r)))

\* C15: the magnitude of a SolarActivatedBody does not depend on the phase
\* angle: whatever alpha is, it is g + 5 * log10(delta) + 2.5 * k * log10(r),
\* and for r > 0 and delta > 0 it is a number, neither None nor an exception.
C15_NoPhase ==
    \A self \in SolarActivatedModels :
        AskedSolarActivated(self) =>
            /\ \A alpha \in Alphas :
                 call.value = SolarActivatedBody_magnitude_of(self, [call.params EXCEPT !.alpha = alpha])
            /\ Gt(call.params.r, Zero) /\ Gt(call.params.delta, Zero) =>
                 /\ call.value # None
                 /\ ~IsRaised(call.value)
                 /\ call.value = SolarFormula(self, call.params.r, call.params.delta)

\* A SolarActivatedBody was asked at 90 degrees, 2 AU from the Sun and 1 AU
\* from the observer, and answered what it answers at 0 degrees: a number
\* other than g.
C15_Witness ==
    /\ call.op = "SolarActivatedBody.magnitude"
    /\ call.params.alpha = IntF(90)
    /\ call.params.r = Two /\ call.params.delta = One
    /\ ~IsRaised(call.value)
    /\ call.value # call.self.g
    /\ call.value = SolarActivatedBody_magnitude_of(call.self, [call.params EXCEPT !.alpha = Zero])

\* The base term and the polynomial of Saturn, and the polynomial of Uranus.
SaturnBase(alpha) == Add(Lit(-8914, -3), Mul(Lit(26, -3), alpha))
SaturnMiddle(alpha) ==
    polynomial(alpha,
        <<Add(Lit(-8914, -3), Lit(26, -3)), Lit(2446, -7), Lit(2672, -5),
          Lit(-1505, -9), Lit(4767, -12)>>)
UranusLow(alpha) == polynomial(alpha, <<Lit(-7110, -3), Lit(6587, -6), Lit(1045, -7)>>)

\* C17: the q of Saturn is -8.914 + 0.026 * alpha below 6.5 degrees, where
\* the ring term is zero (beta is 0); a polynomial of five coefficients from
\* 6.5 degrees (included) to below 150 degrees; and undefined from 150
\* degrees (included), where the magnitude is None.
C17_SaturnRegimes ==
    /\ AskedQ(Saturn) =>
         /\ Saturn_beta_factor(call.params) = Zero
         /\ call.value = IF Below(Lit(65, -1)) THEN SaturnBase(call.params.alpha)
                         ELSE IF Below(IntF(150)) THEN SaturnMiddle(call.params.alpha)
                         ELSE None
    /\ AskedReflected(Saturn) => (call.value = None <=> ~Below(IntF(150)))
    /\ Saturn_q(ParametersOf(One, One, Lit(65, -1), None)) = SaturnMiddle(Lit(65, -1))
    /\ Saturn_q(ParametersOf(One, One, IntF(150), None)) = None

\* Saturn was asked for its q at 6.5 degrees, and it has the value of the
\* polynomial, which is not that of the base term.
C17_Witness ==
    /\ AskedQ(Saturn)
    /\ call.params.alpha = Lit(65, -1)
    /\ call.value = SaturnMiddle(Lit(65, -1))
    /\ call.value # SaturnBase(Lit(65, -1))

\* C18: the q of Uranus is defined exactly below 3.1 degrees, where it is the
\* polynomial [-7.110, 6.587e-3, 1.045e-4], the correction of the pole angle
\* adding zero; from 3.1 degrees (included) it is undefined and the magnitude
\* is None.
C18_UranusDefined ==
    /\ Mul(Lit(-84, -5), Uranus_phiprime) = Zero
    /\ AskedQ(Uranus) =>
         call.value = IF Below(Lit(31, -1)) THEN UranusLow(call.params.alpha) ELSE None
    /\ AskedReflected(Uranus) => (call.value = None <=> ~Below(Lit(31, -1)))
    /\ Uranus_q(ParametersOf(One, One, Lit(31, -1), None)) = None
    /\ ReflectingBody_magnitude_of(Uranus, ParametersOf(One, One, Lit(31, -1), None)) = None

\* Uranus was asked for its magnitude at 3.1 degrees, 1 AU from the Sun and
\* from the observer: None, while at 3 degrees it is a number.
C18_Witness ==
    /\ AskedReflected(Uranus)
    /\ call.params.alpha = Lit(31, -1)
    /\ call.params.r = One /\ call.params.delta = One
    /\ call.value = None
    /\ ReflectingBody_magnitude_of(Uranus, ParametersOf(One, One, IntF(3), None)) = UranusLow(IntF(3))

-----------------------------------------------------------------------------
(* The geometry of an observer at the barycenter, checked under SpecBody.  *)

\* ReflectionParameters.make was called on a position whose observer is at
\* the barycenter.
DerivedAtBarycenter ==
    /\ call.op = "ReflectionParameters.make"
    /\ call.position.center_barycentric = <<0, 0, 0>>

\* C19: when the barycentric position of the observer is the zero vector,
\* ReflectionParameters.make gives r = |observerToBody| = delta, for every
\* vector from the observer to the body.
C19_ObserverAtBarycenter ==
    DerivedAtBarycenter =>
        /\ call.value.r = length_of(VFloat(call.position.position))
        /\ call.value.r = call.value.delta

\* The parameters of a body at <<1, 2, 0>> from an observer at the
\* barycenter were derived: r and delta are the same positive distance.
C19_Witness ==
    /\ DerivedAtBarycenter
    /\ call.position.position = <<1, 2, 0>>
    /\ call.value.r = call.value.delta
    /\ Gt(call.value.r, Two)

-----------------------------------------------------------------------------
(* base/classical.py                                                       *)

\* A divmod that gives a positive multiple of w to the interval it ends: the
\* quotient one less, the remainder w.
float_divmod_upper(a, w) ==
    LET k == -a.e
        fmod == IF a.e >= 0 THEN IntF(Sgn(a.m) * (((Abs(a.m) % w) * (Pow10(a.e) % w)) % w))
                ELSE IF k > 7 THEN a
                ELSE Norm(Sgn(a.m) * (Abs(a.m) % (w * Pow10(k))), a.e)
        wrap == ~IsZero(fmod) /\ fmod.m < 0
        mod == IF wrap THEN Add(fmod, IntF(w)) ELSE fmod
        div == IF wrap THEN Sub(Div(Sub(a, fmod), IntF(w)), One) ELSE Div(Sub(a, fmod), IntF(w))
        floordiv == IntF(Floor(div))
        quotient == IF Gt(Sub(div, floordiv), Lit(5, -1)) THEN Add(floordiv, One) ELSE floordiv
    IN  IF IsZero(mod) /\ a.m > 0 THEN <<Sub(quotient, One), IntF(w)>> ELSE <<quotient, mod>>

\* divmod(a, w) of a float a and a positive integer w of at most two digits,
\* as CPython's float_divmod: mod is fmod(a, w), which is exact and has the
\* sign of a (computed on the mantissa, the exponent of a being at most 9;
\* below 10^-7 per unit of the mantissa, a is less than 1); a mod of the
\* other sign than w moves up by w and the quotient down by 1; the quotient
\* is floored, and moved up when the floor is more than 0.5 below it.
float_divmod(a, w) ==
    LET k == -a.e
        fmod == IF a.e >= 0 THEN IntF(Sgn(a.m) * (((Abs(a.m) % w) * (Pow10(a.e) % w)) % w))
                ELSE IF k > 7 THEN a
                ELSE Norm(Sgn(a.m) * (Abs(a.m) % (w * Pow10(k))), a.e)
        wrap == ~IsZero(fmod) /\ fmod.m < 0
        mod == IF wrap THEN Add(fmod, IntF(w)) ELSE fmod
        div == IF wrap THEN Sub(Div(Sub(a, fmod), IntF(w)), One) ELSE Div(Sub(a, fmod), IntF(w))
        floordiv == IntF(Floor(div))
    IN  <<IF Gt(Sub(div, floordiv), Lit(5, -1)) THEN Add(floordiv, One) ELSE floordiv, mod>>

\* ZODIAC: twelve Zodiac(name, symbol), the symbols from U+2648 on.
ZODIAC ==
    [i \in 1 .. 12 |->
        [name |-> <<"Ari", "Tau", "Gem", "Cnc", "Leo", "Vir",
                    "Lib", "Sco", "Sgr", "Cap", "Aqr", "Psc">>[i],
         symbol |-> 9799 + i]]

\* EclipticPosition.classicalLongitude of self: ZODIAC is indexed from 0 in
\* the source and from 1 here.
classicalLongitude(self) ==
    <<ZODIAC[(Floor(float_divmod(self.longitude, 30)[1]) % 12) + 1],
      float_divmod(self.longitude, 30)[2]>>

\* The longitudes of an EclipticPosition that EclipticPosition.make builds:
\* skyfield reduces the longitude modulo a turn, so the degrees lie in 0 .. 360.
\* The tenths of a degree, and values next to 0, 30 and 360.
MaxLongitudeTenths == 3600
Longitudes ==
    {Lit(k, -1) : k \in 0 .. MaxLongitudeTenths}
        \cup {Lit(1, -9), Lit(29999999, -6), Lit(30000001, -6), Lit(35999999, -5)}

\* observation.classicalPosition.classicalLongitude, once from the state
\* after import.
ClassicalLongitude ==
    /\ call.op = "import"
    /\ \E longitude \in Longitudes :
        /\ call' = [op |-> "classicalLongitude", self |-> [longitude |-> longitude],
                    value |-> classicalLongitude([longitude |-> longitude])]
        /\ UNCHANGED <<STANDARD_BODIES, objects, table, disk, starNames, pc>>

(* example.py: _nearest                                                     *)

\* bisect.bisect_left(a, x) of a sorted list a: the number of elements
\* below x, the leftmost place where x can be inserted.
bisect_left(a, x) == Cardinality({i \in 1 .. Len(a) : a[i] < x})

\* The loop of _nearest over reversed(range(find)): pos counts the elements of
\* values left to visit, values[pos] here being values[pos - 1] in the source.
RECURSIVE NearestLoop(_, _)
NearestLoop(values, pos) ==
    IF pos = 0 THEN None
    ELSE IF values[pos] # None THEN values[pos]
    ELSE NearestLoop(values, pos - 1)

\* _nearest(moments, values, when); the assert raises on lists of different
\* lengths.
nearest(moments, values, when) ==
    IF Len(moments) # Len(values) THEN [raised |-> "AssertionError"]
    ELSE NearestLoop(values, bisect_left(moments, when))

\* Sorted lists of moments and lists of values of at most MaxLen elements;
\* moments are numbered 1 .. MaxMoment, values are None or a float.
MaxLen == 3
MaxMoment == 4
MomentLists ==
    UNION {{m \in [1 .. n -> 1 .. MaxMoment] : \A i \in 1 .. n - 1 : m[i] <= m[i + 1]}
           : n \in 0 .. MaxLen}
ValueLists == UNION {[1 .. n -> {None, One, Two}] : n \in 0 .. MaxLen}

\* _nearest, once from the state after import, of a moment that may lie
\* before and after every moment of the list.
Nearest ==
    /\ call.op = "import"
    /\ \E moments \in MomentLists, values \in ValueLists, when \in 0 .. MaxMoment + 1 :
        /\ call' = [op |-> "_nearest", moments |-> moments, values |-> values, when |-> when,
                    value |-> nearest(moments, values, when)]
        /\ UNCHANGED <<STANDARD_BODIES, objects, table, disk, starNames, pc>>

\* The functions of classical.py and example.py, each called once.
NextPure == ClassicalLongitude \/ Nearest

SpecPure == Init /\ [][NextPure]_vars

(* Properties of classicalLongitude, checked under SpecPure.               *)

\* classicalLongitude was read; the longitude it was read of, and the
\* remainder it gave.
AskedClassical == call.op = "classicalLongitude"
LongitudeAsked == call.self.longitude
RemainderGiven == call.value[2]
\* The index in 0 .. 11 of the sector it gave.
IndexGiven == CHOOSE i \in 0 .. 11 : ZODIAC[i + 1] = call.value[1]
\* floor(a / 30) of a float a in 0 .. 10^8, in integers.
FloorOfThirtieth(a) ==
    IF a.e >= 0 THEN (a.m * Pow10(a.e)) \div 30
    ELSE IF a.e < -7 THEN 0
    ELSE a.m \div (30 * Pow10(-a.e))

\* C16: classicalLongitude gives exactly one of the twelve sectors, that of
\* index floor(longitude / 30) mod 12 (0 = Ari ... 11 = Psc), and a remainder
\* in [0, 30) with 30 * index + remainder congruent to the longitude modulo
\* 360; a multiple of 30 begins its sector, with remainder 0.
C16_Sectors ==
    /\ Cardinality({ZODIAC[i].name : i \in 1 .. 12}) = 12
    /\ ZODIAC[1].name = "Ari" /\ ZODIAC[12].name = "Psc"
    /\ AskedClassical =>
         /\ \E i \in 0 .. 11 : ZODIAC[i + 1] = call.value[1]
         /\ IndexGiven = FloorOfThirtieth(LongitudeAsked) % 12
         /\ Ge(RemainderGiven, Zero) /\ Lt(RemainderGiven, IntF(30))
         /\ Sub(LongitudeAsked, Add(IntF(30 * IndexGiven), RemainderGiven))
              = IntF(360 * (FloorOfThirtieth(LongitudeAsked) \div 12))
         /\ \A n \in 0 .. 12 :
              LongitudeAsked = IntF(30 * n) =>
                  IsZero(RemainderGiven) /\ IndexGiven = n % 12

\* classicalLongitude was read of 210 degrees: Sco (index 7), remainder 0.
C16_Witness ==
    /\ AskedClassical
    /\ LongitudeAsked = IntF(210)
    /\ call.value[1].name = "Sco"
    /\ IsZero(RemainderGiven)

(* Properties of _nearest, checked under SpecPure.                         *)

\* _nearest was called on parallel lists.
AskedNearest == call.op = "_nearest" /\ Len(call.moments) = Len(call.values)
\* The places of the non-null values, and the distance of a place from when.
NonNull == {i \in 1 .. Len(call.values) : call.values[i] # None}
Away(i) == Abs(call.moments[i] - call.when)

\* C20, as stated: _nearest returns the non-null value whose moment is
\* nearest to when, before or after it, and None only when every value is
\* None.
C20_NearestEitherSide ==
    AskedNearest =>
        /\ call.value = None => NonNull = {}
        /\ NonNull # {} =>
             \E i \in NonNull :
                 /\ call.value = call.values[i]
                 /\ \A j \in NonNull : Away(i) <= Away(j)

\* _nearest was called at moment 3 on the moments 1 and 4, both with a
\* value: it returned the value at 1, two away, and not that at 4, one away.
C20_Witness ==
    /\ AskedNearest
    /\ call.moments = <<1, 4>> /\ call.values = <<One, Two>> /\ call.when = 3
    /\ call.value = One

-----------------------------------------------------------------------------
(* base/format.py: TextTable.  A str is a sequence of characters.          *)

\* TextTable(minWidth, exceptFirstColumns, minSpace)
TextTable(minWidth, exceptFirstColumns, minSpace) ==
    [lines |-> <<>>, maxima |-> <<>>, minWidth |-> minWidth,
     exceptFirstColumns |-> exceptFirstColumns, minSpace |-> minSpace]

\* max(len(entry), minWidth) in the loop of append, for the column i
\* (counted from 0, as in the source).
TextTable_length(self, i, entry) ==
    IF i >= self.exceptFirstColumns /\ self.minWidth > Len(entry)
    THEN self.minWidth ELSE Len(entry)

\* The loop of append over enumerate(line), from the column i on.
RECURSIVE TextTable_maxima(_, _, _, _)
TextTable_maxima(self, line, i, maxima) ==
    IF i >= Len(line) THEN maxima
    ELSE TextTable_maxima(self, line, i + 1,
            IF i >= Len(maxima) THEN Append(maxima, TextTable_length(self, i, line[i + 1]))
            ELSE IF TextTable_length(self, i, line[i + 1]) > maxima[i + 1]
            THEN [maxima EXCEPT ![i + 1] = TextTable_length(self, i, line[i + 1])]
            ELSE maxima)

\* A TextTable whose append replaces the width of a column by that of the
\* new entry.
TextTable_append_last(self, line) ==
    [self EXCEPT !.lines = Append(self.lines, line),
                 !.maxima = [i \in 1 .. (IF Len(line) > Len(self.maxima) THEN Len(line)
                                         ELSE Len(self.maxima)) |->
                               IF i <= Len(line) THEN TextTable_length(self, i - 1, line[i])
                               ELSE self.maxima[i]]]

\* self after self.append(line)
TextTable_append(self, line) ==
    [self EXCEPT !.lines = Append(self.lines, line),
                 !.maxima = TextTable_maxima(self, line, 0, self.maxima)]

\* entry.ljust(width): entry, with spaces after it up to width characters.
ljust(entry, width) ==
    IF Len(entry) >= width THEN entry
    ELSE entry \o [k \in 1 .. width - Len(entry) |-> " "]

\* What format writes of a line from its column i on (i counted from 1): zip
\* stops at the shorter of line and maxima.
RECURSIVE TextTable_entries(_, _, _)
TextTable_entries(self, line, i) ==
    IF i > Len(line) \/ i > Len(self.maxima) THEN <<"\n">>
    ELSE ljust(line[i], self.maxima[i] + self.minSpace) \o TextTable_entries(self, line, i + 1)

\* self.format(leader), from the line k on.
RECURSIVE TextTable_formatFrom(_, _, _)
TextTable_formatFrom(self, leader, k) ==
    IF k > Len(self.lines) THEN <<>>
    ELSE leader \o TextTable_entries(self, self.lines[k], 1)
                \o TextTable_formatFrom(self, leader, k + 1)
TextTable_format(self, leader) == TextTable_formatFrom(self, leader, 1)

\* The tables, the lines and the leaders of the calls: at most MaxLines lines
\* of at most MaxColumns entries of 0, 1 or 3 characters.
MaxLines == 2
MaxColumns == 2
Entries == {<<>>, <<"a">>, <<"a", "b", "c">>}
Lines == UNION {[1 .. n -> Entries] : n \in 0 .. MaxColumns}
Tables == {TextTable(0, 0, 2), TextTable(2, 1, 2), TextTable(2, 0, 0), TextTable(1, 1, 1)}

NewTable ==
    /\ table = None
    /\ \E new \in Tables :
        /\ table' = new
        /\ call' = [op |-> "TextTable"]
    /\ UNCHANGED <<STANDARD_BODIES, objects, disk, starNames, pc>>

AppendLine ==
    /\ table # None
    /\ Len(table.lines) < MaxLines
    /\ \E line \in Lines :
        /\ table' = TextTable_append(table, line)
        /\ call' = [op |-> "append", line |-> line]
    /\ UNCHANGED <<STANDARD_BODIES, objects, disk, starNames, pc>>

Format ==
    /\ table # None
    /\ \E leader \in {<<>>, <<" ", " ">>} :
        call' = [op |-> "format", leader |-> leader, value |-> TextTable_format(table, leader)]
    /\ UNCHANGED <<STANDARD_BODIES, objects, table, disk, starNames, pc>>

NextTable == NewTable \/ AppendLine \/ Format

SpecTable == Init /\ [][NextTable]_vars

(* Properties of TextTable, checked under SpecTable.                       *)

\* The lines of the table that have a column i (counted from 1).
LinesWith(i) == {k \in 1 .. Len(table.lines) : Len(table.lines[k]) >= i}
\* max(len(entry), minWidth if i >= exceptFirstColumns else 0) of column i
\* (counted from 1) of the line k.
WidthOf(k, i) ==
    IF i - 1 >= table.exceptFirstColumns /\ table.minWidth > Len(table.lines[k][i])
    THEN table.minWidth ELSE Len(table.lines[k][i])
\* The entry at line k and column i, followed by spaces up to maxima[i] +
\* minSpace characters.
Padded(k, i) ==
    table.lines[k][i]
        \o [n \in 1 .. table.maxima[i] + table.minSpace - Len(table.lines[k][i]) |-> " "]
RECURSIVE PaddedFrom(_, _)
PaddedFrom(k, i) ==
    IF i > Len(table.lines[k]) THEN <<"\n">> ELSE Padded(k, i) \o PaddedFrom(k, i + 1)
RECURSIVE AlignedFrom(_, _)
AlignedFrom(leader, k) ==
    IF k > Len(table.lines) THEN <<>>
    ELSE leader \o PaddedFrom(k, 1) \o AlignedFrom(leader, k + 1)

\* The widths of the table are those of its lines.
WidthsConsistent ==
    table # None =>
        /\ \A k \in 1 .. Len(table.lines) : Len(table.lines[k]) <= Len(table.maxima)
        /\ Len(table.maxima) > 0 => LinesWith(Len(table.maxima)) # {}
        /\ \A i \in 1 .. Len(table.maxima) :
            /\ \A k \in LinesWith(i) : WidthOf(k, i) <= table.maxima[i]
            /\ \E k \in LinesWith(i) : WidthOf(k, i) = table.maxima[i]
\* What format returned is every entry in full, padded to maxima[i] + minSpace.
FormatAligned ==
    call.op = "format" =>
        /\ \A k \in 1 .. Len(table.lines) : \A i \in 1 .. Len(table.lines[k]) :
             Len(table.lines[k][i]) <= table.maxima[i] + table.minSpace
        /\ call.value = AlignedFrom(call.leader, 1)
\* No step shortens maxima or lowers one of its widths.
MaximaGrow ==
    table # None /\ table' # None =>
        /\ Len(table'.maxima) >= Len(table.maxima)
        /\ \A i \in 1 .. Len(table.maxima) : table'.maxima[i] >= table.maxima[i]

\* C22: after any appends of lines of any lengths, len(maxima) is the length
\* of the longest line and maxima[i] is the maximum, over the lines with a
\* column i, of max(len(entry), minWidth if i >= exceptFirstColumns else 0);
\* maxima never decreases; format pads every entry to maxima[i] + minSpace,
\* truncating none.
C22_Widths == [](WidthsConsistent /\ FormatAligned) /\ [][MaximaGrow]_vars

\* A table of minimal width 2 but for its first column, with the lines
\* <<"abc">> and <<"a", "a">>, was formatted: the widths are 3 and 2.
C22_Witness ==
    /\ call.op = "format"
    /\ table.minWidth = 2 /\ table.exceptFirstColumns = 1
    /\ table.lines = << <<<<"a", "b", "c">>>>, <<<<"a">>, <<"a">>>> >>
    /\ table.maxima = <<3, 2>>

-----------------------------------------------------------------------------
(* base/_star_names.py and Data.star.  The directory star_names is         *)
(* [exists, files]: files maps the name of a file to its content, the      *)
(* content of a .fab file being the lines <<name, hip>> that               *)
(* parse_star_names yields.                                                *)

COMPLETE_FILE == "COMPLETE"
FabFile(culture) == culture \o ".fab"

\* stellarium.get_contents("skycultures"): two cultures where Vega is another
\* star, a culture without star_names.fab (found is FALSE: get_contents
\* raises GithubException), and a file.
SkyCultures ==
    << [name |-> "arabic", type |-> "dir", found |-> TRUE, starNames |-> << <<"Vega", 2>> >>],
       [name |-> "CMakeLists.txt", type |-> "file", found |-> FALSE, starNames |-> <<>>],
       [name |-> "maya", type |-> "dir", found |-> FALSE, starNames |-> <<>>],
       [name |-> "western", type |-> "dir", found |-> TRUE,
        starNames |-> << <<"Vega", 1>>, <<"Sirius", 2>> >>] >>
CultureNames == {SkyCultures[i].name : i \in 1 .. Len(SkyCultures)}

\* The rows of the Hipparcos catalogue, by number.
Hipparcos == [number \in {1, 2} |-> Series([magnitude |-> Lit(3, -2)])]

\* The loop of reload over the lines of the file of a culture, from line i on.
RECURSIVE StarNames_lines(_, _, _, _)
StarNames_lines(self, culture, lines, i) ==
    IF i > Len(lines) THEN self
    ELSE StarNames_lines(
            [byCulture |-> (culture :> ((lines[i][1] :> lines[i][2]) @@ self.byCulture[culture]))
                               @@ self.byCulture,
             allStars |-> (lines[i][1] :> lines[i][2]) @@ self.allStars,
             byHip |-> (lines[i][2] :>
                           ((culture :> lines[i][1])
                               @@ (IF lines[i][2] \in DOMAIN self.byHip
                                   THEN self.byHip[lines[i][2]] ELSE <<>>)))
                           @@ self.byHip],
            culture, lines, i + 1)

\* The loop of reload over os.scandir, which lists the files in the order
\* `order`: a file whose name does not end in .fab is passed over.
RECURSIVE StarNames_files(_, _, _, _)
StarNames_files(self, files, order, i) ==
    IF i > Len(order) THEN self
    ELSE IF \A c \in CultureNames : FabFile(c) # order[i]
    THEN StarNames_files(self, files, order, i + 1)
    ELSE StarNames_files(
            StarNames_lines(
                [self EXCEPT !.byCulture =
                    self.byCulture @@ ((CHOOSE c \in CultureNames : FabFile(c) = order[i]) :> <<>>)],
                CHOOSE c \in CultureNames : FabFile(c) = order[i], files[order[i]], 1),
            files, order, i + 1)

\* The dictionaries of a StarNames after reload has read the files.
StarNames_loaded(files, order) ==
    StarNames_files([byCulture |-> <<>>, allStars |-> <<>>, byHip |-> <<>>], files, order, 1)

\* StarNames.find(name, culture): culture is None or [str |-> the culture].
StarNames_find(self, name, culture) ==
    IF culture # None
    THEN IF culture.str \in DOMAIN self.byCulture /\ name \in DOMAIN self.byCulture[culture.str]
         THEN self.byCulture[culture.str][name] ELSE [raised |-> "KeyError"]
    ELSE IF name \in DOMAIN self.allStars THEN self.allStars[name] ELSE [raised |-> "KeyError"]

\* Data.starNumber(name, culture)
Data_starNumber(self, name, culture) == StarNames_find(self, name, culture)

\* The rest of Data.star once the number is known; ref is [str |-> name] or
\* [int |-> number].
Data_starOf(self, standardBodies, ref, number) ==
    IF number \notin DOMAIN Hipparcos \/ number \notin DOMAIN self.byHip
    THEN [raised |-> "KeyError"]
    ELSE IF "int" \in DOMAIN ref /\ "western" \notin DOMAIN self.byHip[number]
            /\ "hip" \notin DOMAIN self.byHip[number]
    THEN [raised |-> "KeyError"]
    ELSE [number |-> number,
          name |-> IF "str" \in DOMAIN ref THEN ref.str
                   ELSE IF "western" \in DOMAIN self.byHip[number]
                   THEN self.byHip[number]["western"] ELSE self.byHip[number]["hip"],
          names |-> self.byHip[number],
          object |-> makeObject(standardBodies, "STAR", Observable(0), Hipparcos[number])]

\* Data.star(ref, culture), on the StarNames self: starNumber is called with
\* the name alone, and its KeyError for a name that is not known ends the call.
Data_star(self, standardBodies, ref, culture) ==
    IF "int" \in DOMAIN ref THEN Data_starOf(self, standardBodies, ref, ref.int)
    ELSE IF ref.str \notin DOMAIN self.allStars THEN Data_starNumber(self, ref.str, None)
    ELSE Data_starOf(self, standardBodies, ref, Data_starNumber(self, ref.str, None))

\* The orders in which os.scandir may list the files of names S.
Orders(S) ==
    {o \in [1 .. Cardinality(S) -> S] : \A i, j \in 1 .. Cardinality(S) : o[i] = o[j] => i = j}

\* StarNames(load), which reloads, and reload(forceRefresh) of the StarNames
\* that the process holds, up to the test of _refresh: with the marker and
\* without force, _refresh returns and the files are read.
Reload ==
    /\ pc.step = "idle"
    /\ \E force \in BOOLEAN :
        /\ starNames = None => ~force
        /\ pc' = IF ~force /\ disk.exists /\ COMPLETE_FILE \in DOMAIN disk.files
                 THEN [step |-> "load"]
                 ELSE [step |-> "rmtree"]
        /\ call' = [op |-> "reload", force |-> force]
    /\ UNCHANGED <<STANDARD_BODIES, objects, table, disk, starNames>>

\* shutil.rmtree(dirname, ignore_errors=True): one file is unlinked, in any
\* order, and the empty directory is removed.
Rmtree ==
    /\ pc.step = "rmtree"
    /\ IF disk.exists /\ DOMAIN disk.files # {}
       THEN \E file \in DOMAIN disk.files :
               /\ disk' = [disk EXCEPT !.files = [f \in DOMAIN disk.files \ {file} |-> disk.files[f]]]
               /\ pc' = pc
       ELSE /\ disk' = [exists |-> FALSE, files |-> <<>>]
            /\ pc' = [step |-> "makedirs"]
    /\ call' = [op |-> "rmtree"]
    /\ UNCHANGED <<STANDARD_BODIES, objects, table, starNames>>

\* os.makedirs(dirname), and the listing of the sky cultures.
Makedirs ==
    /\ pc.step = "makedirs"
    /\ disk' = [exists |-> TRUE, files |-> <<>>]
    /\ pc' = [step |-> "download", next |-> 1]
    /\ call' = [op |-> "makedirs"]
    /\ UNCHANGED <<STANDARD_BODIES, objects, table, starNames>>

\* One turn of the loop over the cultures: the star names of a directory
\* that has them are written to its .fab file.
Download ==
    /\ pc.step = "download"
    /\ pc.next <= Len(SkyCultures)
    /\ disk' = IF SkyCultures[pc.next].type = "dir" /\ SkyCultures[pc.next].found
               THEN [disk EXCEPT !.files = (FabFile(SkyCultures[pc.next].name)
                                                :> SkyCultures[pc.next].starNames) @@ disk.files]
               ELSE disk
    /\ pc' = [pc EXCEPT !.next = pc.next + 1]
    /\ call' = [op |-> "download", culture |-> SkyCultures[pc.next].name]
    /\ UNCHANGED <<STANDARD_BODIES, objects, table, starNames>>

\* After the loop, the marker is written and _refresh returns.
WriteComplete ==
    /\ pc.step = "download"
    /\ pc.next > Len(SkyCultures)
    /\ disk' = [disk EXCEPT !.files = (COMPLETE_FILE :> <<>>) @@ disk.files]
    /\ pc' = [step |-> "load"]
    /\ call' = [op |-> "complete"]
    /\ UNCHANGED <<STANDARD_BODIES, objects, table, starNames>>

\* The rest of reload: the dictionaries are emptied and filled from the
\* files, in the order in which os.scandir lists them.
Load ==
    /\ pc.step = "load"
    /\ \E order \in Orders(DOMAIN disk.files) :
        starNames' = StarNames_loaded(disk.files, order)
    /\ pc' = [step |-> "idle"]
    /\ call' = [op |-> "load"]
    /\ UNCHANGED <<STANDARD_BODIES, objects, table, disk>>

\* The process ends in the middle of reload (it is killed, or the download
\* raises): the StarNames it held is gone, the files stay.
Interrupt ==
    /\ pc.step # "idle"
    /\ pc' = [step |-> "idle"]
    /\ starNames' = None
    /\ call' = [op |-> "interrupted", at |-> pc.step]
    /\ UNCHANGED <<STANDARD_BODIES, objects, table, disk>>

\* data.star(ref, culture), with the StarNames that Data keeps.
StarOnce ==
    /\ pc.step = "idle"
    /\ starNames # None
    /\ \E ref \in {[str |-> n] : n \in {"Vega", "Sirius", "Polaris"}} \cup {[int |-> h] : h \in 1 .. 3},
          culture \in {[str |-> c] : c \in {"arabic", "western"}} \cup {None} :
        call' = [op |-> "star", ref |-> ref, culture |-> culture,
                 value |-> Data_star(starNames, STANDARD_BODIES, ref, culture)]
    /\ UNCHANGED <<STANDARD_BODIES, objects, table, disk, starNames, pc>>

NextNames == Reload \/ Rmtree \/ Makedirs \/ Download \/ WriteComplete \/ Load \/ Interrupt \/ StarOnce

SpecNames == Init /\ [][NextNames]_vars

(* Properties of Data.star and of StarNames, checked under SpecNames.       *)

\* Data.star was called with a name and a culture in which the name is known.
AskedStarOfCulture ==
    /\ call.op = "star"
    /\ "str" \in DOMAIN call.ref
    /\ call.culture # None
    /\ call.culture.str \in DOMAIN starNames.byCulture
    /\ call.ref.str \in DOMAIN starNames.byCulture[call.culture.str]

\* C21, as stated: Data.star(ref, culture) with a name and a culture returns
\* the star whose number is StarNames.find(name, culture=culture), whatever
\* the name means in the culture that was loaded last.
C21_CultureHint ==
    AskedStarOfCulture =>
        /\ ~IsRaised(call.value)
        /\ call.value.number = StarNames_find(starNames, call.ref.str, call.culture)

\* Data.star("Vega", culture="arabic") was called when the file of the
\* western culture had been read last: Vega is star 2 in the arabic culture,
\* and the star returned is star 1.
C21_Witness ==
    /\ AskedStarOfCulture
    /\ call.ref.str = "Vega" /\ call.culture.str = "arabic"
    /\ StarNames_find(starNames, "Vega", call.culture) = 2
    /\ call.value.number = 1

\* The marker is on disk.
Marked == disk.exists /\ COMPLETE_FILE \in DOMAIN disk.files
\* Every culture that has star names has its file on disk.
EveryCultureWritten ==
    \A i \in 1 .. Len(SkyCultures) :
        SkyCultures[i].found =>
            /\ FabFile(SkyCultures[i].name) \in DOMAIN disk.files
            /\ disk.files[FabFile(SkyCultures[i].name)] = SkyCultures[i].starNames
\* A step writes the marker only over a wiped directory that holds the file
\* of every culture and nothing else.
MarkerLast ==
    ~Marked /\ Marked' =>
        /\ EveryCultureWritten'
        /\ DOMAIN disk'.files
             = {COMPLETE_FILE} \cup {FabFile(SkyCultures[i].name) :
                                        i \in {j \in 1 .. Len(SkyCultures) : SkyCultures[j].found}}
\* With the marker and without force, _refresh changes nothing on disk.
MarkedUntouched ==
    Marked /\ pc.step = "idle" /\ call'.op = "reload" /\ ~call'.force =>
        disk' = disk /\ pc'.step = "load"
\* A run that was interrupted within _refresh left no marker.
InterruptedUnmarked ==
    call.op = "interrupted" /\ call.at \in {"rmtree", "makedirs", "download"} => ~Marked

\* C23, as stated: the marker is written only after the directory was wiped
\* and the file of every culture written, so a run interrupted at any step
\* of a refresh leaves no marker; and with the marker and without force,
\* _refresh changes nothing on disk.
C23_CommitPoint == []InterruptedUnmarked /\ [][MarkerLast /\ MarkedUntouched]_vars

\* What holds of the marker: it is written last, and it stops a refresh
\* that is not forced.
MarkerWrittenLast == [][MarkerLast /\ MarkedUntouched]_vars

\* A forced refresh was interrupted within rmtree, after the file of the
\* western culture was removed and before the marker was.
C23_Witness ==
    /\ call.op = "interrupted" /\ call.at = "rmtree"
    /\ Marked
    /\ FabFile("western") \notin DOMAIN disk.files

\* After that, a reload without force kept the marker and read the star
\* names of the arabic culture alone.
PartialLoaded ==
    /\ call.op = "load"
    /\ Marked
    /\ ~EveryCultureWritten
    /\ "western" \notin DOMAIN starNames.byCulture

=============================================================================
